---- MODULE Spec2Model ----
(***************************************************************************)
(* A model of the module-file engine of the f18 Fortran front end          *)
(* (lib/semantics/mod-file.cc): the checksum, the header, WriteFile and    *)
(* its touch-free path, VerifyHeader, the search-path lookup, Read and     *)
(* WriteAll.  Text is modelled as sequences of byte values (0..255), so    *)
(* that lower-casing, the checksum and the header/body split are computed  *)
(* the way the code computes them.                                         *)
(***************************************************************************)
EXTENDS Integers, Sequences, FiniteSets, TLC

VARIABLES
  csIn,       \* CheckSum: the byte sequence handed to CheckSum
  csOut,      \* CheckSum: [result, oob] once CheckSum has run, else NotRun
  fs,         \* the file system: path -> [data, rw] for every existing file
  wfLast,     \* WriteFile: the record of the last call (NoWrite before any)
  vfRes,      \* VerifyHeader: "none", or the result of the last call
  colScope,   \* CollectSymbols: the scope handed to CollectSymbols
  colOut,     \* CollectSymbols: [done, sorted], the vector returned
  scopes,     \* the module and submodule scopes under the global scope, by name
  order,      \* the names of scopes in the order the scopes were created
  moduleDirectory,  \* context_.moduleDirectory()
  msgs,       \* the diagnostics of the last operation
  waLast,     \* WriteAll: [done, writes], one record per Write of the last pass
  rdLast,     \* Read: the record of the last call (NoRead before any)
  crashed,    \* the process was aborted or has undefined behaviour
  program,    \* lowering: the body of the subprogram handed to ProcessRoutine
  analysis,   \* lowering: AnalysisData and linearOperations_
  builder,    \* lowering: the builder, the blocks, blockMap_ and the queued arcs
  phase       \* lowering: the call of ProcessRoutine that comes next

sumVars == <<csIn, csOut>>
fileVars == <<wfLast, vfRes>>
colVars == <<colScope, colOut>>
modVars == <<scopes, order, moduleDirectory, msgs, waLast, rdLast, crashed>>

firVars == <<program, analysis, builder, phase>>
vars == <<sumVars, fs, fileVars, colVars, modVars, firVars>>

\* the value of csOut before CheckSum has run (a result is never empty)
NotRun == [result |-> <<>>, oob |-> FALSE]

(***************************************************************************)
(* Bytes and characters.                                                   *)
(***************************************************************************)
NL == 10

\* parser::ToLowerCaseLetter: 'A'..'Z' -> 'a'..'z', anything else unchanged
ToLowerCaseLetter(c) == IF c >= 65 /\ c <= 90 THEN c + 32 ELSE c

\* PutLower(os, str): every character through ToLowerCaseLetter
PutLower(str) == [i \in 1..Len(str) |-> ToLowerCaseLetter(str[i])]

\* static constexpr auto magic{"!mod$ v1 sum:"}
magic == <<33, 109, 111, 100, 36, 32, 118, 49, 32, 115, 117, 109, 58>>

\* static constexpr auto extension{".mod"}
extension == <<46, 109, 111, 100>>

(***************************************************************************)
(* CheckSum: 64-bit Fowler-Noll-Vo.  A std::uint64_t is four 16-bit limbs, *)
(* least significant first; arithmetic drops the carry out of the fourth   *)
(* limb, which is the reduction modulo 2^64.                               *)
(***************************************************************************)
Limb == 65536

\* std::uint64_t hash{0xcbf29ce484222325ull}: 0x2325, 0x8422, 0x9ce4, 0xcbf2
HashInit == <<8997, 33826, 40164, 52210>>

RECURSIVE XorBits(_, _, _)
\* bitwise exclusive or of two naturals below 2^n
XorBits(a, b, n) ==
  IF n = 0 THEN 0
  ELSE (((a % 2) + (b % 2)) % 2) + 2 * XorBits(a \div 2, b \div 2, n - 1)

\* char c{*it}: the byte as a (signed) char
AsChar(b) == IF b > 127 THEN b - 256 ELSE b

\* c & 0xff: the int promoted from char, masked to its low 8 bits
MaskByte(c) == c % 256

\* hash ^= c, without the mask: a negative char sign-extends to 64 bits, so
\* every bit above the low byte is flipped
XorCharUnmasked(h, c) ==
  IF c >= 0
  THEN [h EXCEPT ![1] = (@ \div 256) * 256 + XorBits(@ % 256, c, 8)]
  ELSE <<(255 - (h[1] \div 256)) * 256 + XorBits(h[1] % 256, c % 256, 8),
         (Limb - 1) - h[2], (Limb - 1) - h[3], (Limb - 1) - h[4]>>

\* hash ^= c & 0xff: the masked value is below 256, so only the low byte of
\* the hash changes
XorChar(h, c) ==
  [h EXCEPT ![1] = (@ \div 256) * 256 + XorBits(@ % 256, MaskByte(c), 8)]

\* 0x100000001b3 = 2^40 + 0x1b3: the low part of the multiplier
FnvPrimeLow == 435

\* hash *= 0x100000001b3: h * 0x1b3 + h * 2^40, limb by limb with carries;
\* h * 2^40 puts the low byte of limb 1 in the high byte of limb 3, and the
\* high byte of limb 1 with the low byte of limb 2 in limb 4
MulPrime(h) ==
  LET t1 == h[1] * FnvPrimeLow
      t2 == h[2] * FnvPrimeLow + (t1 \div Limb)
      t3 == h[3] * FnvPrimeLow + (h[1] % 256) * 256 + (t2 \div Limb)
      t4 == h[4] * FnvPrimeLow + (h[1] \div 256) + (h[2] % 256) * 256
              + (t3 \div Limb)
  IN <<t1 % Limb, t2 % Limb, t3 % Limb, t4 % Limb>>

\* the body of the loop: char c{*it}; hash ^= c & 0xff; hash *= 0x100000001b3;
HashStep(h, b) == MulPrime(XorChar(h, AsChar(b)))

RECURSIVE HashLoop(_, _, _, _)
\* for (auto it{begin}; it != end; ++it) { ... } over str[lo..hi]: the iterations
\* of the first half, then those of the second half on the hash they leave
\* (the test on first has the first half computed before the second starts)
HashLoop(h, str, lo, hi) ==
  IF lo > hi THEN h
  ELSE IF lo = hi THEN HashStep(h, str[lo])
  ELSE LET mid == (lo + hi) \div 2
           first == HashLoop(h, str, lo, mid)
       IN IF Len(first) = 4 THEN HashLoop(first, str, mid + 1, hi) ELSE first

\* digits[hash & 0xf] with digits = "0123456789abcdef"
DigitChar(h) ==
  <<48, 49, 50, 51, 52, 53, 54, 55, 56, 57, 97, 98, 99, 100, 101, 102>>[(h[1] % 16) + 1]

\* hash != 0
NonZero(h) == h # <<0, 0, 0, 0>>

\* hash >>= 4
ShiftRight4(h) ==
  <<(h[1] \div 16) + (h[2] % 16) * 4096, (h[2] \div 16) + (h[3] % 16) * 4096,
    (h[3] \div 16) + (h[4] % 16) * 4096, h[4] \div 16>>

RECURSIVE DigitLoop(_, _, _, _)
\* for (size_t i{16}; hash != 0; hash >>= 4) { result[--i] = digits[hash & 0xf]; }
\* result is indexed 0..15 in the code, 1..16 here; i = 0 before --i would write
\* outside the result string, recorded in oob.
DigitLoop(h, i, result, oob) ==
  IF ~NonZero(h) THEN [result |-> result, oob |-> oob]
  ELSE IF i = 0 THEN [result |-> result, oob |-> TRUE]
  ELSE DigitLoop(ShiftRight4(h), i - 1, [result EXCEPT ![i] = DigitChar(h)], oob)

\* std::string result(16, '0')
ResultInit == <<48, 48, 48, 48, 48, 48, 48, 48, 48, 48, 48, 48, 48, 48, 48, 48>>

\* CheckSum with the bookkeeping of the digit loop
CheckSumRun(str) == DigitLoop(HashLoop(HashInit, str, 1, Len(str)), 16, ResultInit, FALSE)

\* template<typename Iter> static std::string CheckSum(Iter begin, Iter end)
CheckSum(str) == CheckSumRun(str).result

\* static std::string GetHeader(const std::string &all)
GetHeader(all) == magic \o CheckSum(all)


(***************************************************************************)
(* Files.  fs maps the path of every existing file to its bytes and to     *)
(* whether the process may open it for writing.  A stream is modelled by   *)
(* whether its open succeeded.                                             *)
(***************************************************************************)
NoFiles == <<>>

Exists(f, path) == path \in DOMAIN f

\* std::ios::in | std::ios::out on a path: the file must exist and be writable
CanOpenInOut(f, path) == Exists(f, path) /\ f[path].rw

\* std::ios::out (truncate or create): an existing file must be writable
CanOpenOut(f, path) == ~Exists(f, path) \/ f[path].rw

\* std::ifstream: the file must exist
CanOpenIn(f, path) == Exists(f, path)

\* static std::size_t GetFileSize(const std::string &path): 0 when stat fails
GetFileSizeZero(f, path) == 0

GetFileSize(f, path) == IF Exists(f, path) THEN Len(f[path].data) ELSE 0

Prefix(str, n) == SubSeq(str, 1, IF n < Len(str) THEN n ELSE Len(str))

\* header.compare(0, n, lit) == 0: the first n characters of str are exactly lit
StartsWith(str, lit) == Prefix(str, Len(lit)) = lit

\* the position of the first newline of data, 0 when it has none
FirstNL(data) ==
  IF \E i \in 1..Len(data) : data[i] = NL
  THEN CHOOSE i \in 1..Len(data) :
         data[i] = NL /\ \A j \in 1..(i - 1) : data[j] # NL
  ELSE 0

\* std::getline(stream, line): the characters before the first newline (all of
\* them when there is none); the newline is consumed and dropped
GetLine(data) ==
  IF FirstNL(data) = 0 THEN data ELSE SubSeq(data, 1, FirstNL(data) - 1)

\* what the stream still holds after std::getline
AfterLine(data) ==
  IF FirstNL(data) = 0 THEN <<>> ELSE SubSeq(data, FirstNL(data) + 1, Len(data))

\* static bool FileContentsMatch(std::fstream &, header, contents): opened tells
\* whether the stream's open succeeded (every get fails on a stream that is not
\* open); the last line is the final !stream.get(c)
FileContentsMatch(opened, data, header, contents) ==
  /\ opened
  /\ \A i \in 1..Len(header) : i <= Len(data) /\ data[i] = header[i]
  /\ Len(header) + 1 <= Len(data) /\ data[Len(header) + 1] = NL
  /\ \A i \in 1..Len(contents) :
       /\ Len(header) + 1 + i <= Len(data)
       /\ data[Len(header) + 1 + i] = contents[i]
  /\ ~(Len(header) + 1 + Len(contents) + 1 <= Len(data))

\* stream << header << contents, the newline between them forgotten
StreamOutNoNewline(header, contents) == header \o contents

\* stream << header << '\n' << contents
StreamOut(header, contents) == header \o <<NL>> \o contents

\* data with image written over it from position 0 (seekp(0), then <<)
Overwrite(data, image) ==
  image \o (IF Len(data) > Len(image)
            THEN SubSeq(data, Len(image) + 1, Len(data)) ELSE <<>>)

\* static bool WriteFile(const std::string &path, std::string &&contents).
\* The result records, besides the return value (ok) and the file system after
\* the call: the modes of the opens attempted, the number of bytes written and
\* whether the file was truncated.
WriteFile(f, path, contents) ==
  LET header == GetHeader(contents)
      size == GetFileSize(f, path)
      image == StreamOut(header, contents)
  IN IF size = Len(header) + 1 + Len(contents)
     THEN \* file exists and has the right size, check the contents
          LET opened == CanOpenInOut(f, path)
              data == IF Exists(f, path) THEN f[path].data ELSE <<>>
          IN IF FileContentsMatch(opened, data, header, contents)
             THEN [ok |-> TRUE, fs |-> f, opens |-> <<"in|out">>,
                   wrote |-> 0, truncated |-> FALSE]
             ELSE IF opened
             THEN [ok |-> TRUE,
                   fs |-> [f EXCEPT ![path].data = Overwrite(data, image)],
                   opens |-> <<"in|out">>, wrote |-> Len(image),
                   truncated |-> FALSE]
             ELSE [ok |-> FALSE, fs |-> f, opens |-> <<"in|out">>,
                   wrote |-> 0, truncated |-> FALSE]
     ELSE IF CanOpenOut(f, path)
     THEN [ok |-> TRUE,
           fs |-> (path :> [data |-> image, rw |-> TRUE]) @@ f,
           opens |-> <<"out">>, wrote |-> Len(image),
           truncated |-> Exists(f, path)]
     ELSE [ok |-> FALSE, fs |-> f, opens |-> <<"out">>,
           wrote |-> 0, truncated |-> FALSE]

\* a VerifyHeader that accepts every file
VerifyHeaderSkipped(f, path) == TRUE

\* static bool VerifyHeader(const std::string &path): std::fstream stream{path}
\* opens in|out; on a stream that is not open getline leaves header empty
VerifyHeader(f, path) ==
  LET opened == CanOpenInOut(f, path)
      data == IF opened THEN f[path].data ELSE <<>>
      header == GetLine(data)
      magicLen == Len(magic)
  IN IF ~StartsWith(header, magic) THEN FALSE
     ELSE LET expectSum == SubSeq(header, magicLen + 1,
                                  IF Len(header) < magicLen + 16
                                  THEN Len(header) ELSE magicLen + 16)
              actualSum == CheckSum(AfterLine(data))
          IN expectSum = actualSum

Dot == <<46>>

\* static std::string ModFilePath(dir, name, ancestorName)
ModFilePath(dir, name, ancestorName) ==
  (IF dir # Dot THEN dir \o <<47>> ELSE <<>>)
    \o (IF ancestorName # <<>> THEN PutLower(ancestorName) \o <<45>> ELSE <<>>)
    \o PutLower(name) \o extension

(***************************************************************************)
(* Symbols and CollectSymbols.  A symbol is a record: name, begin (the     *)
(* start offset of its source name), kind (its details) and the ParentComp *)
(* flag; Use and Subprogram symbols carry their own fields as well.  A     *)
(* scope holds syms, its symbols in the order of its name map, and         *)
(* commons, its common-block symbols in the order of its common-block map. *)
(***************************************************************************)
Symbol(name, begin, kind, parentComp) ==
  [name |-> name, begin |-> begin, kind |-> kind, parentComp |-> parentComp,
   useModule |-> <<>>, useName |-> <<>>, localAttrs |-> {}, useAttrs |-> {},
   isInterface |-> FALSE]

\* the comparator of the sort, the namelist rule left out
SymbolLessByOffsetOnly(x, y) == x.begin < y.begin

\* the comparator handed to std::sort
SymbolLess(x, y) ==
  LET xIsNml == x.kind = "Namelist"
      yIsNml == y.kind = "Namelist"
  IN IF xIsNml # yIsNml THEN (~xIsNml) /\ yIsNml
     ELSE x.begin < y.begin

RECURSIVE InsertSorted(_, _)
InsertSorted(x, sorted) ==
  IF sorted = <<>> THEN <<x>>
  ELSE IF SymbolLess(x, Head(sorted)) THEN <<x>> \o sorted
  ELSE <<Head(sorted)>> \o InsertSorted(x, Tail(sorted))

RECURSIVE SortSymbols(_)
\* std::sort(sorted.begin(), sorted.end(), ...): the symbols in the order of the
\* comparator (no two symbols of a scope are equivalent under it: their source
\* names start at different offsets)
SortSymbols(list) ==
  IF list = <<>> THEN <<>>
  ELSE InsertSorted(Head(list), SortSymbols(Tail(list)))

RECURSIVE PushBackNew(_, _, _)
\* the two loops of CollectSymbols: push_back of every symbol of list that passes
\* the ParentComp test (skipParentComp) and that symbols.insert finds new
PushBackNew(sorted, list, skipParentComp) ==
  IF list = <<>> THEN sorted
  ELSE LET sym == Head(list)
           seen == \E i \in 1..Len(sorted) : sorted[i] = sym
       IN PushBackNew(
            IF (skipParentComp /\ sym.parentComp) \/ seen
            THEN sorted ELSE Append(sorted, sym),
            Tail(list), skipParentComp)

\* std::vector<const Symbol *> CollectSymbols(const Scope &scope)
CollectSymbols(scope) ==
  SortSymbols(PushBackNew(PushBackNew(<<>>, scope.syms, TRUE),
                          scope.commons, FALSE))

(***************************************************************************)
(* Scopes.  scopes maps the name of every module and submodule scope to    *)
(* [isSubmodule, parent, modFile, scope]: parent is the name of the scope  *)
(* that holds the unit's symbol (Global for a module), modFile is          *)
(* Symbol::Flag::ModFile of that symbol, scope is what CollectSymbols      *)
(* reads.  Every scope here has kind Scope::Kind::Module, the only kind    *)
(* WriteOne looks at.  Names are the lower-case letters of the cooked      *)
(* source.                                                                 *)
(***************************************************************************)
Global == <<>>

NoScopes == <<>>

\* ModuleDetails::isSubmodule()
IsSubmodule(sc, name) == sc[name].isSubmodule

\* ModuleDetails::parent(): the scope of the parent module or submodule
ParentOf(sc, name) == sc[name].parent

RECURSIVE AncestorOf(_, _)
\* ModuleDetails::ancestor(): the module at the top of the parent chain of a
\* submodule
AncestorOf(sc, name) ==
  IF ~sc[name].isSubmodule THEN name ELSE AncestorOf(sc, sc[name].parent)

\* scope.children(), in creation order
Children(sc, ord, parent) ==
  SelectSeq(ord, LAMBDA n : n \in DOMAIN sc /\ sc[n].parent = parent)

(***************************************************************************)
(* The writer.  buf is the four accumulation streams of ModFileWriter.     *)
(***************************************************************************)
EmptyBuf == [uses |-> <<>>, useExtraAttrs |-> <<>>, decls |-> <<>>, contains |-> <<>>]

\* "module ", "submodule(", ") ", "contains\n", "end\n"
TxtModule == <<109, 111, 100, 117, 108, 101, 32>>
TxtSubmodule == <<115, 117, 98, 109, 111, 100, 117, 108, 101, 40>>
TxtCloseParen == <<41, 32>>
TxtContains == <<99, 111, 110, 116, 97, 105, 110, 115, 10>>
TxtEnd == <<101, 110, 100, 10>>
\* "use ", ",only:", "=>", "::"
TxtUse == <<117, 115, 101, 32>>
TxtOnly == <<44, 111, 110, 108, 121, 58>>
TxtArrow == <<61, 62>>
TxtColons == <<58, 58>>
\* "interface\n", "end interface\n", "subroutine ", "()"
TxtInterface == <<105, 110, 116, 101, 114, 102, 97, 99, 101, 10>>
TxtEndInterface == <<101, 110, 100, 32, 105, 110, 116, 101, 114, 102, 97, 99, 101, 10>>
TxtSubroutine == <<115, 117, 98, 114, 111, 117, 116, 105, 110, 101, 32>>
TxtParens == <<40, 41>>
\* "namelist/", "common/"
TxtNamelist == <<110, 97, 109, 101, 108, 105, 115, 116, 47>>
TxtCommon == <<99, 111, 109, 109, 111, 110, 47>>

\* AttrToString(attr) for the two attributes PutUse looks at
AttrToString(attr) ==
  IF attr = "VOLATILE" THEN <<86, 79, 76, 65, 84, 73, 76, 69>>
  ELSE <<65, 83, 89, 78, 67, 72, 82, 79, 78, 79, 85, 83>>

\* void ModFileWriter::PutUseExtraAttr(Attr attr, const Symbol &local, const Symbol &use)
PutUseExtraAttr(buf, attr, sym) ==
  IF attr \in sym.localAttrs /\ attr \notin sym.useAttrs
  THEN [buf EXCEPT !.useExtraAttrs =
          @ \o PutLower(AttrToString(attr)) \o TxtColons \o PutLower(sym.name) \o <<NL>>]
  ELSE buf

\* void ModFileWriter::PutUse(const Symbol &symbol)
PutUse(buf, sym) ==
  LET line == TxtUse \o PutLower(sym.useModule) \o TxtOnly \o PutLower(sym.name)
                \o (IF sym.useName # sym.name
                    THEN TxtArrow \o PutLower(sym.useName) ELSE <<>>)
                \o <<NL>>
      withUse == [buf EXCEPT !.uses = @ \o line]
  IN PutUseExtraAttr(PutUseExtraAttr(withUse, "VOLATILE", sym), "ASYNCHRONOUS", sym)

\* void ModFileWriter::PutSubprogram(const Symbol &symbol), for a subroutine
\* without attributes, dummy arguments or bind name
PutSubprogram(buf, sym) ==
  LET text == TxtSubroutine \o PutLower(sym.name) \o TxtParens \o <<NL>> \o TxtEnd
  IN IF sym.isInterface
     THEN [buf EXCEPT !.decls = @ \o TxtInterface \o text \o TxtEndInterface]
     ELSE [buf EXCEPT !.contains = @ \o text]

\* void ModFileWriter::PutSymbol(typeBindings, symbol), for the details modelled:
\* a namelist group and a common block are written without objects
PutSymbol(buf, sym) ==
  CASE sym.kind = "Subprogram" -> PutSubprogram(buf, sym)
    [] sym.kind = "Use" -> PutUse(buf, sym)
    [] sym.kind = "Namelist" ->
         [buf EXCEPT !.decls = @ \o TxtNamelist \o PutLower(sym.name) \o <<NL>>]
    [] sym.kind = "CommonBlock" ->
         [buf EXCEPT !.decls = @ \o TxtCommon \o PutLower(sym.name) \o <<NL>>]
    [] sym.kind \in {"Module", "UseError", "HostAssoc", "Misc"} -> buf

RECURSIVE PutSymbolList(_, _)
PutSymbolList(buf, list) ==
  IF list = <<>> THEN buf
  ELSE PutSymbolList(PutSymbol(buf, Head(list)), Tail(list))

\* void ModFileWriter::PutSymbols(const Scope &scope); no symbol modelled here
\* writes to typeBindings
PutSymbols(buf, scope) == PutSymbolList(buf, CollectSymbols(scope))

\* the first line of the body
UnitStatement(sc, name) ==
  IF ~IsSubmodule(sc, name) THEN TxtModule \o PutLower(name)
  ELSE TxtSubmodule \o PutLower(AncestorOf(sc, name))
         \o (IF ParentOf(sc, name) # AncestorOf(sc, name)
             THEN <<58>> \o PutLower(ParentOf(sc, name)) ELSE <<>>)
         \o TxtCloseParen \o PutLower(name)

\* GetAsString, the stream useExtraAttrs_ left uncleared
GetAsStringKeepExtraAttrs(buf, sc, name) ==
  [str |-> UnitStatement(sc, name) \o <<NL>> \o buf.uses \o buf.useExtraAttrs
             \o buf.decls
             \o (IF buf.contains # <<>> THEN TxtContains \o buf.contains ELSE <<>>)
             \o TxtEnd,
   buf |-> [EmptyBuf EXCEPT !.useExtraAttrs = buf.useExtraAttrs]]

\* std::string ModFileWriter::GetAsString(const Symbol &symbol): the body, and
\* the streams after it (each one cleared)
GetAsString(buf, sc, name) ==
  [str |-> UnitStatement(sc, name) \o <<NL>> \o buf.uses \o buf.useExtraAttrs
             \o buf.decls
             \o (IF buf.contains # <<>> THEN TxtContains \o buf.contains ELSE <<>>)
             \o TxtEnd,
   buf |-> [uses |-> <<>>, useExtraAttrs |-> <<>>, decls |-> <<>>,
            contains |-> <<>>]]

Message(kind, name, path, attachments) ==
  [kind |-> kind, name |-> name, path |-> path, attachments |-> attachments]

\* Write, with the name of the direct parent in place of the ancestor's
WritePathOfParent(dir, sc, name) ==
  ModFilePath(dir, name, IF IsSubmodule(sc, name) THEN ParentOf(sc, name) ELSE <<>>)

\* the path Write forms: ModFilePath(context_.moduleDirectory(), symbol.name(),
\* ancestorName), ancestorName empty for a module
WritePath(dir, sc, name) ==
  ModFilePath(dir, name, IF IsSubmodule(sc, name) THEN AncestorOf(sc, name) ELSE <<>>)

\* void ModFileWriter::Write(const Symbol &symbol).  w is the writer and its
\* surroundings: [fs, buf, writes, msgs]
Write(w, dir, sc, name) ==
  LET path == WritePath(dir, sc, name)
      filled == PutSymbols(w.buf, sc[name].scope)
      got == GetAsString(filled, sc, name)
      res == WriteFile(w.fs, path, got.str)
  IN [fs |-> res.fs,
      buf |-> got.buf,
      writes |-> Append(w.writes,
                   [name |-> name, path |-> path, bufBefore |-> w.buf,
                    body |-> got.str, bufAfter |-> got.buf, ok |-> res.ok,
                    opens |-> res.opens, wrote |-> res.wrote]),
      msgs |-> IF res.ok THEN w.msgs
               ELSE Append(w.msgs, Message("ErrorWriting", name, path, <<>>))]

\* WriteOne, the ModFile flag not looked at
WriteFlagIgnored(sym) == TRUE

\* WriteOne: !symbol->test(Symbol::Flag::ModFile)
WriteWanted(sym) == ~sym.modFile

RECURSIVE WriteAllIn(_, _, _, _, _)
\* void ModFileWriter::WriteAll(const Scope &scope) over the children still to
\* visit, with WriteOne for each: Write unless the symbol has the ModFile flag,
\* then WriteAll(scope) to write out submodules
WriteAllIn(w, dir, sc, ord, todo) ==
  IF todo = <<>> THEN w
  ELSE LET child == Head(todo)
           written == IF WriteWanted(sc[child]) THEN Write(w, dir, sc, child) ELSE w
           below == WriteAllIn(written, dir, sc, ord, Children(sc, ord, child))
       IN WriteAllIn(below, dir, sc, ord, Tail(todo))

\* bool ModFileWriter::WriteAll(), on a writer just constructed
WriteAll(f, dir, sc, ord) ==
  WriteAllIn([fs |-> f, buf |-> EmptyBuf, writes |-> <<>>, msgs |-> <<>>],
             dir, sc, ord, Children(sc, ord, Global))

(***************************************************************************)
(* The reader.  A call of Read works on rs = [scopes, order, msgs, trace,  *)
(* status]: trace lists what the call did to files (open, verify, parse,   *)
(* resolve), status is "ok" until the call aborts or fails to return.      *)
(***************************************************************************)
Null == <<0>>      \* nullptr where a scope is expected

NoPath == <<>>     \* std::nullopt

DirD == <<100>>    \* the directory "d"

\* context_.searchDirectories()
searchDirectories == <<Dot, DirD>>

Event(ev, path, ok) == [ev |-> ev, path |-> path, ok |-> ok]

\* a search that passes over a candidate whose checksum is wrong
FirstLineHasMagicAndSum(f, path) ==
  StartsWith(GetLine(f[path].data), magic) /\ VerifyHeader(f, path)

\* line.compare(0, strlen(magic), magic) == 0 on the first line of the file
FirstLineHasMagic(f, path) == StartsWith(GetLine(f[path].data), magic)

RECURSIVE FindModFileFrom(_, _, _, _, _, _)
\* the loop of FindModFile over the directories still to try; accepted(dir)
\* does not depend on the directories before it
FindModFileFrom(f, name, ancestor, dirs, attachments, trace) ==
  IF dirs = <<>>
  THEN [path |-> NoPath, trace |-> trace,
        msgs |-> <<Message("CannotFind", name, ancestor, attachments)>>]
  ELSE LET path == ModFilePath(Head(dirs), name, ancestor)
       IN IF ~CanOpenIn(f, path)
          THEN FindModFileFrom(f, name, ancestor, Tail(dirs),
                 Append(attachments, [path |-> path, text |-> "strerror"]),
                 Append(trace, Event("open", path, FALSE)))
          ELSE IF FirstLineHasMagic(f, path)
          THEN [path |-> path, trace |-> Append(trace, Event("open", path, TRUE)),
                msgs |-> <<>>]
          ELSE FindModFileFrom(f, name, ancestor, Tail(dirs),
                 Append(attachments, [path |-> path, text |-> "NotValid"]),
                 Append(trace, Event("open", path, TRUE)))

\* FindModFile, giving up after the first directory
FindModFileFirstOnly(f, name, ancestor) ==
  FindModFileFrom(f, name, ancestor, <<Head(searchDirectories)>>, <<>>, <<>>)

\* std::optional<std::string> ModFileReader::FindModFile(name, ancestor)
FindModFile(f, name, ancestor) ==
  FindModFileFrom(f, name, ancestor, searchDirectories, <<>>, <<>>)

(***************************************************************************)
(* The parser and the name resolver are collaborators outside this part of *)
(* the repository.  The parser is modelled on the unit statement and the   *)
(* closing END of a module file; the header line is a comment to it.       *)
(***************************************************************************)
IsName(str) == str # <<>> /\ \A i \in 1..Len(str) : str[i] \in 97..122

\* the position of the first b in str, 0 when there is none
IndexOf(str, b) ==
  IF \E i \in 1..Len(str) : str[i] = b
  THEN CHOOSE i \in 1..Len(str) : str[i] = b /\ \A j \in 1..(i - 1) : str[j] # b
  ELSE 0

EndsWith(str, lit) ==
  Len(str) >= Len(lit) /\ SubSeq(str, Len(str) - Len(lit) + 1, Len(str)) = lit

NoTree == [ok |-> FALSE, isSubmodule |-> FALSE, name |-> <<>>,
           ancestor |-> <<>>, parent |-> <<>>]

\* module-stmt: "module " name
ParseModuleStmt(stmt) ==
  LET name == SubSeq(stmt, Len(TxtModule) + 1, Len(stmt))
  IN IF IsName(name)
     THEN [ok |-> TRUE, isSubmodule |-> FALSE, name |-> name,
           ancestor |-> <<>>, parent |-> <<>>]
     ELSE NoTree

\* submodule-stmt: "submodule(" ancestor [ ":" parent ] ") " name
ParseSubmoduleStmt(stmt) ==
  LET rest == SubSeq(stmt, Len(TxtSubmodule) + 1, Len(stmt))
      close == IndexOf(rest, 41)
      ident == SubSeq(rest, 1, close - 1)
      colon == IndexOf(ident, 58)
      ancestor == IF colon = 0 THEN ident ELSE SubSeq(ident, 1, colon - 1)
      parent == IF colon = 0 THEN <<>> ELSE SubSeq(ident, colon + 1, Len(ident))
      name == SubSeq(rest, close + 2, Len(rest))
  IN IF /\ close > 0
        /\ close + 1 <= Len(rest)
        /\ SubSeq(rest, close, close + 1) = TxtCloseParen
        /\ IsName(ancestor)
        /\ colon > 0 => IsName(parent)
        /\ IsName(name)
     THEN [ok |-> TRUE, isSubmodule |-> TRUE, name |-> name,
           ancestor |-> ancestor, parent |-> parent]
     ELSE NoTree

\* parsing.Prescan(path, options); parsing.Parse(nullptr): the tree of the one
\* program unit of the file, ok when there are no messages and the whole file
\* was consumed
Parse(data) ==
  LET text == IF data # <<>> /\ data[1] = 33 THEN AfterLine(data) ELSE data
      stmt == GetLine(text)
  IN IF FirstNL(text) = 0 \/ ~EndsWith(AfterLine(text), TxtEnd) THEN NoTree
     ELSE IF StartsWith(stmt, TxtModule) THEN ParseModuleStmt(stmt)
     ELSE IF StartsWith(stmt, TxtSubmodule) THEN ParseSubmoduleStmt(stmt)
     ELSE NoTree

EmptyScope == [syms |-> <<>>, commons |-> <<>>]

Unit(isSubmodule, parent, scope) ==
  [isSubmodule |-> isSubmodule, parent |-> parent, modFile |-> FALSE,
   scope |-> scope]

\* ancestor->FindSubmodule(name): the submodules of a module are registered
\* with the module, whatever their direct parent is
FindSubmodule(sc, ancestor, name) ==
  name \in DOMAIN sc /\ sc[name].isSubmodule /\ AncestorOf(sc, name) = ancestor

\* parentScope->find(name) for a module or submodule name
FindIn(sc, parent, name) == name \in DOMAIN sc /\ sc[name].parent = parent

\* ResolveNames(context_, parseTree) on the tree of a module file: the unit
\* gets a symbol and a scope under its parent, provided the parent is there
ResolveNames(rs, tree) ==
  LET parent == IF ~tree.isSubmodule THEN Global
                ELSE IF tree.parent # <<>> THEN tree.parent ELSE tree.ancestor
      parentThere ==
        \/ ~tree.isSubmodule
        \/ /\ tree.ancestor \in DOMAIN rs.scopes
           /\ ~rs.scopes[tree.ancestor].isSubmodule
           /\ tree.parent # <<>> => FindSubmodule(rs.scopes, tree.ancestor, tree.parent)
  IN IF parentThere /\ tree.name \notin DOMAIN rs.scopes
     THEN [rs EXCEPT !.scopes = (tree.name :> Unit(tree.isSubmodule, parent, EmptyScope)) @@ @,
                     !.order = Append(@, tree.name)]
     ELSE rs

Returned(rs, result) == [rs |-> rs, result |-> result]

Traced(rs, ev, path, ok) == [rs EXCEPT !.trace = Append(@, Event(ev, path, ok))]

Said(rs, kind, name, path) ==
  [rs EXCEPT !.msgs = Append(@, Message(kind, name, path, <<>>))]

\* modSymbol.set(Symbol::Flag::ModFile)
SetModFile(sc, name) == [sc EXCEPT ![name].modFile = TRUE]

\* a Read that never finds the unit in the scope tree
FindCachedNever(sc, name, ancestor) == FALSE

\* the start of Read: the submodule is under the ancestor already, or the
\* module is in the global scope
FindCached(sc, name, ancestor) ==
  IF ancestor # Global THEN FindSubmodule(sc, ancestor, name)
  ELSE FindIn(sc, Global, name)

\* the end of Read, from ResolveNames on: parentScope is the scope the unit
\* should have gone into, Null when the Read of the parent returned nullptr
ReadResolved(rs, name, path, tree, parentScope) ==
  LET resolved == ResolveNames(Traced(rs, "resolve", path, TRUE), tree)
  IN IF parentScope = Null
     THEN Returned([resolved EXCEPT !.status = "undefined"], Null)
     ELSE IF ~FindIn(resolved.scopes, parentScope, name)
     THEN Returned(resolved, Null)
     ELSE Returned([resolved EXCEPT !.scopes = SetModFile(@, name)], name)

RECURSIVE Read(_, _, _, _, _)
\* Scope *ModFileReader::Read(const SourceName &name, Scope *ancestor).
\* ancestor is Global for a module.  pending holds the submodules whose Read is
\* waiting for this one: a parent among them is read in the state its own Read
\* started in, so the recursion does not end ("diverges").
Read(rs, f, name, ancestor, pending) ==
  IF FindCached(rs.scopes, name, ancestor)
  THEN Returned(rs, name)
  ELSE
  LET found == FindModFile(f, name, ancestor)
      looked == [rs EXCEPT !.trace = @ \o found.trace, !.msgs = @ \o found.msgs]
      path == found.path
  IN IF path = NoPath THEN Returned(looked, Null)
     ELSE IF ~VerifyHeader(f, path)
     THEN Returned(Said(Traced(looked, "verify", path, FALSE),
                        "InvalidChecksum", name, path), Null)
     ELSE
     LET tree == Parse(f[path].data)
         parsed == Traced(Traced(looked, "verify", path, TRUE), "parse", path, tree.ok)
     IN IF ~tree.ok THEN Returned(Said(parsed, "Corrupt", name, path), Null)
        ELSE IF ancestor = Global
        THEN ReadResolved(parsed, name, path, tree, Global)
        ELSE IF ~tree.isSubmodule
        THEN \* GetSubmoduleParent: std::get on the wrong alternative throws
             Returned([parsed EXCEPT !.status = "aborted"], Null)
        ELSE IF tree.parent = <<>>
        THEN ReadResolved(parsed, name, path, tree, ancestor)
        ELSE IF tree.parent \in pending \cup {name}
        THEN Returned([parsed EXCEPT !.status = "diverges"], Null)
        ELSE LET above == Read(parsed, f, tree.parent, ancestor, pending \cup {name})
             IN IF above.rs.status # "ok" THEN Returned(above.rs, Null)
                ELSE ReadResolved(above.rs, name, path, tree, above.result)

(***************************************************************************)
(* The specification that exercises CheckSum on its own: the input is any  *)
(* byte sequence over SumBytes of length at most MaxSumLen.                *)
(***************************************************************************)
MaxSumLen == 3

\* a letter, a newline, NUL, and two bytes above 127 (negative as char)
SumBytes == {0, NL, 97, 128, 255}

RECURSIVE SeqsUpTo(_, _)
SeqsUpTo(S, n) ==
  IF n = 0 THEN {<<>>}
  ELSE LET shorter == SeqsUpTo(S, n - 1)
       IN shorter \cup {Append(s, x) : s \in {t \in shorter : Len(t) = n - 1}, x \in S}

SumIdle == csIn = <<>> /\ csOut = NotRun
\* the value of wfLast before any call of WriteFile (a call opens at least once)
NoWrite == [path |-> <<>>, contents |-> <<>>, pre |-> NoFiles, ok |-> FALSE,
            opens |-> <<>>, wrote |-> 0, truncated |-> FALSE]

FileIdle == wfLast = NoWrite /\ vfRes = "none"
ColIdle == colScope = [syms |-> <<>>, commons |-> <<>>]
           /\ colOut = [done |-> FALSE, sorted |-> <<>>]

\* the value of waLast before any pass of WriteAll
NoWriteAll == [done |-> FALSE, writes |-> <<>>]

\* the value of rdLast before any call of Read
NoRead == [name |-> <<>>, ancestor |-> <<>>, result |-> Null, status |-> "none",
           trace |-> <<>>]

ModIdle ==
  /\ scopes = NoScopes
  /\ order = <<>>
  /\ moduleDirectory = Dot
  /\ msgs = <<>>
  /\ waLast = NoWriteAll
  /\ rdLast = NoRead
  /\ crashed = FALSE

\* no subprogram is being lowered: builder_ is null
FirIdle ==
  /\ program = <<>>
  /\ analysis = <<>>
  /\ builder = <<>>
  /\ phase = "idle"

SumInit ==
  /\ csIn \in SeqsUpTo(SumBytes, MaxSumLen)
  /\ csOut = NotRun
  /\ fs = NoFiles
  /\ FileIdle
  /\ ColIdle
  /\ FirIdle
  /\ ModIdle

SumApply ==
  /\ csOut = NotRun
  /\ csOut' = CheckSumRun(csIn)
  /\ UNCHANGED <<csIn, fs, fileVars, colVars, modVars, firVars>>

SumNext == SumApply

SpecSum == SumInit /\ [][SumNext]_vars

(***************************************************************************)
(* The Fowler-Noll-Vo recurrence as the specification states it, computed  *)
(* on eight base-256 limbs (least significant first) by long               *)
(* multiplication: h_0 = 0xcbf29ce484222325,                               *)
(* h_(i+1) = ((h_i XOR byte_i) * 0x100000001b3) mod 2^64.                  *)
(***************************************************************************)
RefOffsetBasis == <<37, 35, 34, 132, 228, 156, 242, 203>>
RefPrime == <<179, 1, 0, 0, 0, 1, 0, 0>>

RECURSIVE RefColumn(_, _, _, _)
\* column k of the long multiplication: the sum of a[i] * b[k + 1 - i], i in i..k
RefColumn(a, b, k, i) ==
  IF i > k THEN 0 ELSE a[i] * b[k + 1 - i] + RefColumn(a, b, k, i + 1)

RECURSIVE RefMulLimbs(_, _, _, _)
RefMulLimbs(a, b, k, carry) ==
  IF k > 8 THEN <<>>
  ELSE LET t == RefColumn(a, b, k, 1) + carry
       IN <<t % 256>> \o RefMulLimbs(a, b, k + 1, t \div 256)

RefBit(x, i) == (x \div (2 ^ i)) % 2

RefXorByte(a, b) ==
  LET d(i) == IF RefBit(a, i) # RefBit(b, i) THEN 2 ^ i ELSE 0
  IN d(0) + d(1) + d(2) + d(3) + d(4) + d(5) + d(6) + d(7)

RECURSIVE RefHash(_, _)
\* h_n for the first n bytes of str
RefHash(str, n) ==
  IF n = 0 THEN RefOffsetBasis
  ELSE LET h == RefHash(str, n - 1)
       IN RefMulLimbs([h EXCEPT ![1] = RefXorByte(h[1], str[n])], RefPrime, 1, 0)

RefHexChar(n) == <<48, 49, 50, 51, 52, 53, 54, 55, 56, 57, 97, 98, 99, 100, 101, 102>>[n + 1]

\* the 16 hex digits of a 64-bit value, most significant first, zero padded
RefHex(h) ==
  [i \in 1..16 |->
     LET limb == h[8 - ((i - 1) \div 2)]
     IN RefHexChar(IF i % 2 = 1 THEN limb \div 16 ELSE limb % 16)]

HexChars == (48..57) \cup (97..102)

\* C4: CheckSum returns exactly 16 characters of [0-9a-f], the zero-padded
\* most-significant-first hex form of the FNV-1a value h_n of the input bytes
\* (taken as 0..255); the digit loop never writes outside the result; and the
\* header is the magic immediately followed by these digits.
C4_CheckSumIsFnv1a ==
  csOut # NotRun =>
    /\ Len(csOut.result) = 16
    /\ \A i \in 1..16 : csOut.result[i] \in HexChars
    /\ csOut.result = RefHex(RefHash(csIn, Len(csIn)))
    /\ ~csOut.oob
    /\ GetHeader(csIn) = magic \o RefHex(RefHash(csIn, Len(csIn)))
    /\ (csIn = <<97>> =>
          csOut.result = <<97, 102, 54, 51, 100, 99, 52, 99,
                           56, 54, 48, 49, 101, 99, 56, 99>>)

\* CheckSum has run on an input of full length that holds a byte above 127
C4_Witness ==
  /\ csOut # NotRun
  /\ Len(csIn) = MaxSumLen
  /\ \E i \in 1..Len(csIn) : csIn[i] > 127

(***************************************************************************)
(* The specification that exercises WriteFile and VerifyHeader on one      *)
(* path: the file is absent at first, or holds what an earlier write left  *)
(* there, or a damaged or foreign file, writable or not; every call writes *)
(* any body over FileBytes of length at most MaxBodyLen.                   *)
(***************************************************************************)
MaxBodyLen == 2

\* a newline and a byte above 127
FileBytes == {NL, 200}

FileBodies == SeqsUpTo(FileBytes, MaxBodyLen)

\* the path of module M in directory "."
FilePath == ModFilePath(Dot, <<77>>, <<>>)

\* the file the specification says a module file is: magic, 16 digits, newline, body
Image(body) == magic \o CheckSum(body) \o <<NL>> \o body

\* data with the character at position k replaced by another one
Damage(data, k) == [data EXCEPT ![k] = IF @ = 48 THEN 49 ELSE 48]

PriorData ==
  {<<>>}
    \cup {Image(b) : b \in FileBodies}
    \cup {Damage(Image(b), Len(magic) + 1) : b \in FileBodies}
    \cup {Damage(Image(b), Len(Image(b))) : b \in FileBodies}
    \cup {Image(b) \o <<NL>> : b \in FileBodies}

FileInit ==
  /\ fs \in {NoFiles}
            \cup {FilePath :> [data |-> d, rw |-> w] : d \in PriorData, w \in BOOLEAN}
  /\ FileIdle
  /\ SumIdle
  /\ ColIdle
  /\ FirIdle
  /\ ModIdle

\* one call WriteFile(FilePath, body)
FileWrite ==
  \E body \in FileBodies :
    LET r == WriteFile(fs, FilePath, body)
    IN /\ fs' = r.fs
       /\ wfLast' = [path |-> FilePath, contents |-> body, pre |-> fs,
                     ok |-> r.ok, opens |-> r.opens, wrote |-> r.wrote,
                     truncated |-> r.truncated]
       /\ vfRes' = "none"
       /\ UNCHANGED <<sumVars, colVars, modVars, firVars>>

\* one call VerifyHeader(FilePath)
FileVerify ==
  /\ vfRes = "none"
  /\ vfRes' = IF VerifyHeader(fs, FilePath) THEN "accepted" ELSE "rejected"
  /\ UNCHANGED <<fs, wfLast, sumVars, colVars, modVars, firVars>>

FileNext == FileWrite \/ FileVerify

SpecFile == FileInit /\ [][FileNext]_vars

\* the last call of WriteFile found the path holding exactly what it would write
TouchFreeCase ==
  /\ wfLast # NoWrite
  /\ Exists(wfLast.pre, wfLast.path)
  /\ wfLast.pre[wfLast.path].data = Image(wfLast.contents)

\* C1: if the file at the path already holds exactly header, newline, body, then
\* WriteFile returns true without writing any byte and without opening the file
\* for writing, and leaves the file as it was.
C1_TouchFreeRewrite ==
  TouchFreeCase =>
    /\ wfLast.ok
    /\ wfLast.wrote = 0
    /\ ~wfLast.truncated
    /\ fs = wfLast.pre
    /\ \A i \in 1..Len(wfLast.opens) : wfLast.opens[i] = "in"

\* C2: the file WriteFile produces is accepted by VerifyHeader: the checksum
\* recomputed over everything after the first newline equals the 16 digits
\* that follow the magic.
C2_WriteVerifyRoundTrip ==
  (wfLast # NoWrite /\ wfLast.ok) =>
    /\ VerifyHeader(fs, wfLast.path)
    /\ vfRes # "rejected"
    /\ LET data == fs[wfLast.path].data
       IN /\ StartsWith(data, magic)
          /\ SubSeq(data, Len(magic) + 1, Len(magic) + 16)
               = CheckSum(AfterLine(data))
          /\ AfterLine(data) = wfLast.contents

\* a write of a body with a newline in it succeeded over a file of another
\* size, and VerifyHeader has run on the result
C2_Witness ==
  /\ wfLast # NoWrite /\ wfLast.ok /\ wfLast.wrote > 0
  /\ \E i \in 1..Len(wfLast.contents) : wfLast.contents[i] = NL
  /\ Exists(wfLast.pre, wfLast.path)
  /\ vfRes = "accepted"

(***************************************************************************)
(* The specification that exercises CollectSymbols on its own.  The scope  *)
(* declares at most MaxDecls entities, the k-th at source offset k: an     *)
(* object, a synthetic parent component, a namelist group or a common      *)
(* block; the name map holds its symbols in either order.                  *)
(***************************************************************************)
MaxDecls == 3

DeclKinds == {"none", "Object", "ParentComp", "Namelist", "CommonBlock"}

\* the symbol declared at offset k with kind d; its name is the letter 'a' + k
DeclSymbol(k, d) ==
  Symbol(<<97 + k>>, k, IF d = "ParentComp" THEN "Object" ELSE d, d = "ParentComp")

RECURSIVE DeclList(_, _, _, _)
\* the symbols of decl among offsets k..MaxDecls that are (common = TRUE) or are
\* not (FALSE) common blocks, in increasing (up) or decreasing offset order
DeclList(decl, k, common, up) ==
  IF k > MaxDecls THEN <<>>
  ELSE LET here == IF decl[k] # "none" /\ ((decl[k] = "CommonBlock") = common)
                   THEN <<DeclSymbol(k, decl[k])>> ELSE <<>>
           rest == DeclList(decl, k + 1, common, up)
       IN IF up THEN here \o rest ELSE rest \o here

ColInit ==
  /\ \E decl \in [1..MaxDecls -> DeclKinds], up \in BOOLEAN :
       colScope = [syms |-> DeclList(decl, 1, FALSE, up),
                   commons |-> DeclList(decl, 1, TRUE, ~up)]
  /\ colOut = [done |-> FALSE, sorted |-> <<>>]
  /\ SumIdle
  /\ fs = NoFiles
  /\ FileIdle
  /\ ModIdle
  /\ FirIdle

ColApply ==
  /\ ~colOut.done
  /\ colOut' = [done |-> TRUE, sorted |-> CollectSymbols(colScope)]
  /\ UNCHANGED <<colScope, sumVars, fs, fileVars, modVars, firVars>>

ColNext == ColApply

SpecCollect == ColInit /\ [][ColNext]_vars

\* the number of positions of list that hold sym
Occurrences(list, sym) == Cardinality({i \in 1..Len(list) : list[i] = sym})

InList(list, sym) == \E i \in 1..Len(list) : list[i] = sym

\* every symbol that is not ParentComp and every common block exactly once, and
\* nothing else
CollectsExactlyOnce ==
  LET out == colOut.sorted
  IN /\ \A i \in 1..Len(colScope.syms) :
          Occurrences(out, colScope.syms[i])
            = IF colScope.syms[i].parentComp THEN 0 ELSE 1
     /\ \A i \in 1..Len(colScope.commons) :
          Occurrences(out, colScope.commons[i]) = 1
     /\ \A i \in 1..Len(out) :
          InList(colScope.syms, out[i]) \/ InList(colScope.commons, out[i])

NamelistsLast ==
  LET out == colOut.sorted
  IN \A i, j \in 1..Len(out) :
       (out[i].kind = "Namelist" /\ out[j].kind # "Namelist") => j < i

\* C10 as stated: every symbol not flagged ParentComp and every common block
\* exactly once; namelists after everything else; common blocks after the
\* other (non-namelist) symbols; otherwise in increasing source offset.
C10_CommonBlocksAppended ==
  colOut.done =>
    LET out == colOut.sorted
    IN /\ CollectsExactlyOnce
       /\ NamelistsLast
       /\ \A i, j \in 1..Len(out) :
            (out[i].kind = "CommonBlock" /\ out[j].kind \notin {"CommonBlock", "Namelist"})
               => j < i
       /\ \A i, j \in 1..Len(out) :
            (i < j /\ out[i].kind = out[j].kind) => out[i].begin < out[j].begin

\* C10, amended: every symbol not flagged ParentComp and every common block
\* exactly once; namelists after everything else; and within the namelists and
\* within the rest, common blocks included, increasing source offset.
C10_EmissionOrder ==
  colOut.done =>
    LET out == colOut.sorted
    IN /\ CollectsExactlyOnce
       /\ NamelistsLast
       /\ \A i, j \in 1..Len(out) :
            (i < j /\ (out[i].kind = "Namelist") = (out[j].kind = "Namelist"))
               => out[i].begin < out[j].begin

\* CollectSymbols has run on a scope that declares a namelist group, then a
\* common block, then an object: the common block comes first, the namelist last
C10_Witness ==
  /\ colOut.done
  /\ Len(colOut.sorted) = 3
  /\ colOut.sorted[1].kind = "CommonBlock"
  /\ colOut.sorted[2].kind = "Object"
  /\ colOut.sorted[3].kind = "Namelist" /\ colOut.sorted[3].begin = 1

(***************************************************************************)
(* Compilations.  A compilation declares modules and submodules (Declare,  *)
(* the name resolver at work on the user's source), reads module files     *)
(* (ReadAct) and ends with a pass of the writer (WriteAllAct); NewSession  *)
(* starts the next compilation over the files the earlier ones left.       *)
(* The units: module m, its submodule s, and submodule t of m whose parent  *)
(* is s.  Module files are written to and searched in the directory ".".   *)
(***************************************************************************)
NameM == <<109>>
NameS == <<115>>
NameT == <<116>>

UnitNames == {NameM, NameS, NameT}

\* a scope that fills each of the four streams of the writer: a use-associated
\* x (of module "x", renamed from y, made VOLATILE locally), an interface body p
\* and a module subroutine q
FullScope ==
  [syms |-> << [Symbol(<<120>>, 1, "Use", FALSE) EXCEPT
                  !.useModule = <<120>>, !.useName = <<121>>,
                  !.localAttrs = {"VOLATILE"}],
               [Symbol(<<112>>, 2, "Subprogram", FALSE) EXCEPT !.isInterface = TRUE],
               Symbol(<<113>>, 3, "Subprogram", FALSE) >>,
   commons |-> <<>>]

\* the units a source file can declare under each name
UnitsOf(name) ==
  CASE name = NameM -> {Unit(FALSE, Global, EmptyScope), Unit(FALSE, Global, FullScope)}
    [] name = NameS -> {Unit(TRUE, NameM, EmptyScope)}
    [] name = NameT -> {Unit(TRUE, NameS, EmptyScope)}

Init ==
  /\ SumIdle
  /\ FileIdle
  /\ ColIdle
  /\ FirIdle
  /\ fs = NoFiles
  /\ scopes = NoScopes
  /\ order = <<>>
  /\ moduleDirectory = Dot
  /\ msgs = <<>>
  /\ waLast = NoWriteAll
  /\ rdLast = NoRead
  /\ crashed = FALSE

\* the name resolver declares a module or submodule of the source file
Declare ==
  /\ ~crashed
  /\ \E name \in UnitNames \ DOMAIN scopes :
     \E unit \in UnitsOf(name) :
       /\ unit.isSubmodule => unit.parent \in DOMAIN scopes
       /\ scopes' = (name :> unit) @@ scopes
       /\ order' = Append(order, name)
  /\ msgs' = <<>>
  /\ waLast' = NoWriteAll
  /\ rdLast' = NoRead
  /\ UNCHANGED <<sumVars, fs, fileVars, colVars, moduleDirectory, crashed, firVars>>

\* ModFileWriter writer{context}; writer.WriteAll()
WriteAllAct ==
  /\ ~crashed
  /\ scopes # NoScopes
  /\ LET w == WriteAll(fs, moduleDirectory, scopes, order)
     IN /\ fs' = w.fs
        /\ waLast' = [done |-> TRUE, writes |-> w.writes]
        /\ msgs' = w.msgs
  /\ rdLast' = NoRead
  /\ UNCHANGED <<sumVars, fileVars, colVars, scopes, order, moduleDirectory, crashed, firVars>>

\* a call Read(name, ancestor) from the name resolver (a USE statement, or the
\* parent of a submodule); an undefined outcome is either an abort or a return
\* of nullptr
ReadAct ==
  /\ ~crashed
  /\ \E name \in UnitNames,
        ancestor \in {Global} \cup {a \in DOMAIN scopes : ~scopes[a].isSubmodule} :
       LET start == [scopes |-> scopes, order |-> order, msgs |-> <<>>,
                     trace |-> <<>>, status |-> "ok"]
           r == Read(start, fs, name, ancestor, {})
       IN /\ scopes' = r.rs.scopes
          /\ order' = r.rs.order
          /\ msgs' = r.rs.msgs
          /\ rdLast' = [name |-> name, ancestor |-> ancestor, result |-> r.result,
                        status |-> r.rs.status, trace |-> r.rs.trace]
          /\ \/ crashed' = (r.rs.status \in {"aborted", "diverges"})
             \/ r.rs.status = "undefined" /\ crashed' = TRUE
  /\ waLast' = NoWriteAll
  /\ UNCHANGED <<sumVars, fs, fileVars, colVars, moduleDirectory, firVars>>

\* the compilation ends; the next one starts with an empty global scope
NewSession ==
  /\ ~crashed
  /\ scopes # NoScopes
  /\ scopes' = NoScopes
  /\ order' = <<>>
  /\ msgs' = <<>>
  /\ waLast' = NoWriteAll
  /\ rdLast' = NoRead
  /\ UNCHANGED <<sumVars, fs, fileVars, colVars, moduleDirectory, crashed, firVars>>

Next == Declare \/ WriteAllAct \/ ReadAct \/ NewSession

Spec == Init /\ [][Next]_vars

(***************************************************************************)
(* Reading the module files that are there.  The search directories hold   *)
(* any choice of the files below, and the compilation reads them.  Each    *)
(* body comes as a well-formed file (Image), and some also with wrong      *)
(* digits, with bytes between the digits and the end of the header line,   *)
(* without a header, or not writable by the process.  The files of the     *)
(* submodules vary where m.mod is the only file for m and is well formed:  *)
(* a submodule is read under the scope of m.                               *)
(***************************************************************************)
BodyM == TxtModule \o NameM \o <<NL>> \o TxtEnd
\* "submodule(m) s", "submodule(m:t) s", and a module in the file of s
BodyS == TxtSubmodule \o NameM \o TxtCloseParen \o NameS \o <<NL>> \o TxtEnd
BodySOfT == TxtSubmodule \o NameM \o <<58>> \o NameT \o TxtCloseParen \o NameS
              \o <<NL>> \o TxtEnd
BodyModuleS == TxtModule \o NameS \o <<NL>> \o TxtEnd
\* "submodule(m) t", "submodule(m:s) t"
BodyT == TxtSubmodule \o NameM \o TxtCloseParen \o NameT \o <<NL>> \o TxtEnd
BodyTOfS == TxtSubmodule \o NameM \o <<58>> \o NameS \o TxtCloseParen \o NameT
              \o <<NL>> \o TxtEnd
\* a body the parser rejects
BodyNoUnit == TxtEnd

\* the header with sixteen digits that are not the sum of any body used here
WrongDigits(body) == magic \o ResultInit \o <<NL>> \o body

\* the right digits, then " ok" before the end of the header line
TrailingBytes(body) == StreamOut(GetHeader(body) \o <<32, 111, 107>>, body)

File(data, rw) == [data |-> data, rw |-> rw]

\* no file at path, or one of files
FilesAt(path, files) == {NoFiles} \cup {path :> file : file \in files}

PathM == ModFilePath(Dot, NameM, <<>>)
PathDM == ModFilePath(DirD, NameM, <<>>)
PathS == ModFilePath(Dot, NameS, NameM)
PathT == ModFilePath(Dot, NameT, NameM)

\* the files there can be for m in ".", for m in "d", for s and for t
FilesM ==
  FilesAt(PathM, {File(Image(BodyM), TRUE), File(Image(BodyM), FALSE),
                  File(WrongDigits(BodyM), TRUE), File(TrailingBytes(BodyM), TRUE),
                  File(BodyM, TRUE), File(Image(BodyNoUnit), TRUE)})
FilesDM == FilesAt(PathDM, {File(Image(BodyM), TRUE), File(WrongDigits(BodyM), TRUE)})
FilesS ==
  FilesAt(PathS, {File(Image(BodyS), TRUE), File(Image(BodySOfT), TRUE),
                  File(Image(BodyModuleS), TRUE)})
FilesT ==
  FilesAt(PathT, {File(Image(BodyT), TRUE), File(Image(BodyTOfS), TRUE),
                  File(WrongDigits(BodyT), TRUE)})

ReadInit ==
  /\ SumIdle
  /\ FileIdle
  /\ ColIdle
  /\ FirIdle
  /\ \E fm \in FilesM, fd \in FilesDM, fsub \in FilesS, ft \in FilesT :
       /\ \/ fm = PathM :> File(Image(BodyM), TRUE) /\ fd = NoFiles
          \/ fsub = NoFiles /\ ft = NoFiles
       /\ fs = fm @@ fd @@ fsub @@ ft
  /\ scopes = NoScopes
  /\ order = <<>>
  /\ moduleDirectory = Dot
  /\ msgs = <<>>
  /\ waLast = NoWriteAll
  /\ rdLast = NoRead
  /\ crashed = FALSE

ReadNext == ReadAct

SpecRead == ReadInit /\ [][ReadNext]_vars

(***************************************************************************)
(* What a call of Read did, read off its record.                           *)
(***************************************************************************)
EventsOf(rd, ev) == SelectSeq(rd.trace, LAMBDA e : e.ev = ev)

\* the file Read handed to VerifyHeader for the requested name: the requested
\* file is verified before any parent is read
VerifiedPath(rd) ==
  IF EventsOf(rd, "verify") = <<>> THEN NoPath ELSE EventsOf(rd, "verify")[1].path

\* the call searched the directories (the name was not in the scope tree)
Searched(rd) == rd.status # "none" /\ rd.trace # <<>>

\* the sixteen characters after the magic are not the checksum of the body
DigitsDiffer(data) ==
  LET header == GetLine(data)
  IN SubSeq(header, Len(magic) + 1,
            IF Len(header) < Len(magic) + 16 THEN Len(header) ELSE Len(magic) + 16)
       # CheckSum(AfterLine(data))

\* C3: if the file found for the requested module starts with the magic and
\* its 16 digits differ from the checksum of its body, Read emits exactly one
\* 'invalid checksum' error against the requested name, returns no scope
\* (normally, without abort), neither parses nor name-resolves any file, and
\* leaves the scope tree as it was.
C3_ChecksumMismatchIsLocal ==
  [][LET rd == rdLast'
         path == VerifiedPath(rd)
     IN (Searched(rd) /\ path # NoPath /\ DigitsDiffer(fs[path].data))
          => /\ msgs' = <<Message("InvalidChecksum", rd.name, path, <<>>)>>
             /\ rd.result = Null
             /\ rd.status = "ok"
             /\ ~crashed'
             /\ EventsOf(rd, "parse") = <<>>
             /\ EventsOf(rd, "resolve") = <<>>
             /\ scopes' = scopes
             /\ order' = order]_vars

\* m is in the scope tree, the file of submodule t has wrong digits, and the
\* Read of t has returned
C3_Witness ==
  /\ Searched(rdLast)
  /\ rdLast.name = NameT
  /\ NameM \in DOMAIN scopes
  /\ VerifiedPath(rdLast) = PathT
  /\ DigitsDiffer(fs[PathT].data)
  /\ rdLast.result = Null

\* C5: when the header line of the file found for the requested module has
\* bytes after the 16 digits, Read returns no scope and reports 'invalid
\* checksum' or 'corrupt' against the requested name.
C5_TrailingHeaderBytesRejected ==
  LET path == VerifiedPath(rdLast)
  IN (Searched(rdLast) /\ path # NoPath
        /\ Len(GetLine(fs[path].data)) > Len(magic) + 16)
       => /\ rdLast.result = Null
          /\ \E i \in 1..Len(msgs) :
               /\ msgs[i].kind \in {"InvalidChecksum", "Corrupt"}
               /\ msgs[i].name = rdLast.name

\* the file of the requested name in directory dir opens and its first line
\* begins with the magic
Qualifies(f, dir, name, ancestor) ==
  LET path == ModFilePath(dir, name, ancestor)
  IN path \in DOMAIN f /\ StartsWith(GetLine(f[path].data), magic)

\* C6: a Read that searches takes the candidate of the earliest search
\* directory that qualifies and then emits no 'cannot find' error for the name;
\* when no directory qualifies it emits exactly one 'cannot find module file'
\* error with one attachment per directory, in order, verifies nothing and
\* returns no scope without aborting.
C6_SearchPathResolution ==
  Searched(rdLast) =>
    LET dirs == searchDirectories
        qual == {i \in 1..Len(dirs) :
                   Qualifies(fs, dirs[i], rdLast.name, rdLast.ancestor)}
    IN IF qual # {}
       THEN /\ VerifiedPath(rdLast)
                 = ModFilePath(dirs[CHOOSE i \in qual : \A j \in qual : i <= j],
                               rdLast.name, rdLast.ancestor)
            /\ \A i \in 1..Len(msgs) :
                 ~(msgs[i].kind = "CannotFind" /\ msgs[i].name = rdLast.name)
       ELSE /\ Len(msgs) = 1
            /\ msgs[1].kind = "CannotFind"
            /\ msgs[1].name = rdLast.name
            /\ Len(msgs[1].attachments) = Len(dirs)
            /\ \A i \in 1..Len(dirs) :
                 msgs[1].attachments[i].path
                   = ModFilePath(dirs[i], rdLast.name, rdLast.ancestor)
            /\ EventsOf(rdLast, "verify") = <<>>
            /\ rdLast.result = Null
            /\ rdLast.status = "ok"
            /\ ~crashed

\* "." holds a file for m that does not begin with the magic, and Read took the
\* file of "d"
C6_Witness ==
  /\ Searched(rdLast)
  /\ rdLast.name = NameM
  /\ PathM \in DOMAIN fs
  /\ VerifiedPath(rdLast) = PathDM
  /\ rdLast.result = NameM

\* C7: a unit that Read has loaded from a module file carries the ModFile
\* flag; the flag stays for the rest of the compilation; and a pass of WriteAll
\* writes a file for exactly the units without the flag (the submodules of a
\* flagged unit included) and leaves the file of every flagged unit as it was.
C7_LoadedModuleNotWrittenBack ==
  [][/\ (Searched(rdLast') /\ rdLast'.result # Null)
          => scopes'[rdLast'.result].modFile
     /\ \A n \in DOMAIN scopes \cap DOMAIN scopes' :
          scopes[n].modFile => scopes'[n].modFile
     /\ waLast'.done =>
          \A n \in DOMAIN scopes' :
            /\ scopes'[n].modFile
                 <=> ~\E i \in 1..Len(waLast'.writes) : waLast'.writes[i].name = n
            /\ scopes'[n].modFile =>
                 LET path == WritePath(moduleDirectory, scopes', n)
                 IN /\ path \in DOMAIN fs' <=> path \in DOMAIN fs
                    /\ path \in DOMAIN fs => fs'[path] = fs[path]]_vars

\* m was loaded from m.mod, its submodule s was declared by the source, and
\* WriteAll has written s only
C7_Witness ==
  /\ waLast.done
  /\ NameM \in DOMAIN scopes /\ scopes[NameM].modFile
  /\ NameS \in DOMAIN scopes /\ ~scopes[NameS].modFile
  /\ Len(waLast.writes) = 1
  /\ waLast.writes[1].name = NameS

\* the body of a unit written by a writer whose streams are empty
BodyOf(sc, name) == GetAsString(PutSymbols(EmptyBuf, sc[name].scope), sc, name).str

\* C9: in every pass of WriteAll, the four streams are empty before and after
\* each Write, the body written for a unit is the one an unused writer gives
\* for its scope, whatever was written before it in the pass, and the file
\* holds the header of that body and the body.
C9_DeterministicEmission ==
  waLast.done =>
    \A i \in 1..Len(waLast.writes) :
      LET w == waLast.writes[i]
      IN /\ w.bufBefore = EmptyBuf
         /\ w.bufAfter = EmptyBuf
         /\ w.body = BodyOf(scopes, w.name)
         /\ w.ok => fs[w.path].data = StreamOut(GetHeader(w.body), w.body)

\* the pass wrote m, whose scope fills all four streams, and then s
C9_Witness ==
  /\ waLast.done
  /\ Len(waLast.writes) >= 2
  /\ waLast.writes[1].name = NameM
  /\ scopes[NameM].scope = FullScope
  /\ waLast.writes[1].body # BodyM
  /\ waLast.writes[2].name = NameS

(***************************************************************************)
(* Writing and reading back in either directory.  A compilation that has   *)
(* declared m, s and t (the parent of t is m or s) writes its module files *)
(* to "." or to "d"; later compilations read them.                         *)
(***************************************************************************)
TreeOf(parentOfT) ==
  (NameM :> Unit(FALSE, Global, EmptyScope))
    @@ (NameS :> Unit(TRUE, NameM, EmptyScope))
    @@ (NameT :> Unit(TRUE, parentOfT, EmptyScope))

PathInit ==
  /\ SumIdle
  /\ FileIdle
  /\ ColIdle
  /\ FirIdle
  /\ fs = NoFiles
  /\ scopes \in {TreeOf(NameM), TreeOf(NameS)}
  /\ order = <<NameM, NameS, NameT>>
  /\ moduleDirectory \in {Dot, DirD}
  /\ msgs = <<>>
  /\ waLast = NoWriteAll
  /\ rdLast = NoRead
  /\ crashed = FALSE

PathNext == WriteAllAct \/ ReadAct \/ NewSession

SpecPath == PathInit /\ [][PathNext]_vars

\* "" for the directory ".", the directory and '/' otherwise
DirPrefix(dir) == IF dir = Dot THEN <<>> ELSE dir \o <<47>>

\* name ".mod" for a module, root "-" name ".mod" for a submodule of module root
FileName(name, root) ==
  (IF root = <<>> THEN <<>> ELSE root \o <<45>>) \o name \o <<46, 109, 111, 100>>

\* the events of the trace before the first one that is not an open: the
\* candidates probed for the requested name
RECURSIVE LeadingOpens(_)
LeadingOpens(trace) ==
  IF trace = <<>> \/ Head(trace).ev # "open" THEN <<>>
  ELSE <<Head(trace)>> \o LeadingOpens(Tail(trace))

\* C8: the writer writes module m to <dir>/m.mod and a submodule of root
\* ancestor m to <dir>/m-<name>.mod, whatever its direct parent, with no "./"
\* for directory "."; the reader probes, directory by directory, the same
\* name for (name, ancestor); and the reader's probe of the write directory
\* for a unit just written accepts the path the writer wrote.
C8_SameNamingInWriterAndReader ==
  /\ waLast.done =>
       \A i \in 1..Len(waLast.writes) :
         LET w == waLast.writes[i]
             root == IF scopes[w.name].isSubmodule THEN NameM ELSE <<>>
         IN /\ w.path = DirPrefix(moduleDirectory) \o FileName(w.name, root)
            /\ w.ok => FindModFileFrom(fs, w.name, root, <<moduleDirectory>>,
                                       <<>>, <<>>).path = w.path
  /\ ModFilePath(DirD, <<77>>, <<65>>) = <<100, 47, 97, 45, 109, 46, 109, 111, 100>>
  /\ ModFilePath(Dot, <<77>>, <<>>) = <<109, 46, 109, 111, 100>>
  /\ Searched(rdLast) =>
       LET opens == LeadingOpens(rdLast.trace)
       IN /\ opens # <<>>
          /\ \A i \in 1..Len(opens) :
               opens[i].path = DirPrefix(searchDirectories[i])
                                 \o FileName(rdLast.name, rdLast.ancestor)

\* files were written to "d", t among them with s as its direct parent
C8_Witness ==
  /\ waLast.done
  /\ moduleDirectory = DirD
  /\ NameT \in DOMAIN scopes /\ scopes[NameT].parent = NameS
  /\ \E i \in 1..Len(waLast.writes) :
       /\ waLast.writes[i].name = NameT
       /\ waLast.writes[i].path = <<100, 47, 109, 45, 116, 46, 109, 111, 100>>

(***************************************************************************)
(* The control-flow lowering of one subprogram (lib/FIR/afforestation.cc):  *)
(* ProcessRoutine walks the parse tree into the list of linear operations,  *)
(* ConstructFIR turns the list into basic blocks, queueing the branches     *)
(* whose target block does not exist yet, DrawRemainingArcs replays the     *)
(* queue and Cleanup discards the per-procedure data.                       *)
(*                                                                         *)
(* A parse-tree node is a record [kind, label, name, labels, symbol,        *)
(* block]: label is the statement label (0 for none), name the construct    *)
(* name of a construct or of a CYCLE or EXIT ("" for none), labels the      *)
(* labels the statement names, block the body of a construct.  A node is    *)
(* identified by its path, the sequence of positions from the body of the   *)
(* subprogram down to it; the address of a parser::Name is the pair of the  *)
(* path of the node that holds it and the member it is stored in.           *)
(***************************************************************************)
\* ~0u: every bit of the unsigned set, which no label of the builder reaches;
\* written as the value the same 32 bits have as a signed number
unspecifiedLabel == -1

Statement(kind, label, name, labels, symbol) ==
  [kind |-> kind, label |-> label, name |-> name, labels |-> labels,
   symbol |-> symbol, block |-> <<>>]

Construct(kind, label, name, block) ==
  [kind |-> kind, label |-> label, name |-> name, labels |-> <<>>,
   symbol |-> "", block |-> block]

\* the executable constructs of the model; a SELECT RANK or SELECT TYPE
\* construct is one without a case
Constructs ==
  {"DoConstruct", "IfConstruct", "BlockConstruct", "AssociateConstruct",
   "ChangeTeamConstruct", "CriticalConstruct", "WhereConstruct", "ForallConstruct",
   "SelectRankConstruct", "SelectTypeConstruct"}

\* the ELSE IF blocks and the ELSE block of an IF construct: nodes of the
\* block of the construct, after the statements between THEN and the first
\* ELSE IF or ELSE
IfParts == {"ElseIfBlock", "ElseBlock"}

\* the loop control of the DO statement of a DO construct, "" for none
LoopBounds == "LoopBounds"
LoopControls == {LoopBounds, "ScalarLogicalExpr", "Concurrent", ""}
DoConstruct(control, label, name, block) ==
  [Construct("DoConstruct", label, name, block) EXCEPT !.symbol = control]

\* std::map, as the set of its <<key, value>> pairs
Has(map, key) == \E p \in map : p[1] = key
Lookup(map, key) == (CHOOSE p \in map : p[1] = key)[2]

\* the linear operations; u is the kind of the node the operation points to
\* and at is the path of that node
LinearOp(op, u, at, target, falseLabel, refs, symbol) ==
  [op |-> op, u |-> u, at |-> at, target |-> target,
   falseLabel |-> falseLabel, refs |-> refs, symbol |-> symbol]
LinearLabel(ref) == LinearOp("Label", "", <<>>, ref, unspecifiedLabel, <<>>, "")
LinearGoto(u, at, dest) == LinearOp("Goto", u, at, dest, unspecifiedLabel, <<>>, "")
LinearReturn(u, at) ==
  LinearOp("Return", u, at, unspecifiedLabel, unspecifiedLabel, <<>>, "")
\* a variant with the two labels the other way round
LinearConditionalGotoSwapped(u, at, tb, fb) ==
  LinearOp("CondGoto", u, at, fb, tb, <<>>, "")

LinearConditionalGoto(u, at, tb, fb) == LinearOp("CondGoto", u, at, tb, fb, <<>>, "")
LinearIndirectGoto(symbol, labelRefs) ==
  LinearOp("IndirectGoto", "", <<>>, unspecifiedLabel, unspecifiedLabel, labelRefs, symbol)
\* refs holds errLabel, eorLabel and endLabel, unspecifiedLabel for std::nullopt
LinearSwitchingIO(u, at, next, errLab, eorLab, endLab) ==
  LinearOp("SwitchingIO", u, at, next, unspecifiedLabel, <<errLab, eorLab, endLab>>, "")
LinearSwitch(u, at, refs) ==
  LinearOp("Switch", u, at, unspecifiedLabel, unspecifiedLabel, refs, "")
LinearAction(u, at) ==
  LinearOp("Action", u, at, unspecifiedLabel, unspecifiedLabel, <<>>, "")
LinearBeginConstruct(u, at) ==
  LinearOp("BeginConstruct", u, at, unspecifiedLabel, unspecifiedLabel, <<>>, "")
LinearEndConstruct(u, at) ==
  LinearOp("EndConstruct", u, at, unspecifiedLabel, unspecifiedLabel, <<>>, "")
LinearDoIncrement(at) ==
  LinearOp("DoIncrement", "DoConstruct", at, unspecifiedLabel, unspecifiedLabel, <<>>, "")
LinearDoCompare(at) ==
  LinearOp("DoCompare", "DoConstruct", at, unspecifiedLabel, unspecifiedLabel, <<>>, "")

\* AnalysisData together with the list the analyzer appends to.  counter is
\* labelBuilder.counter, died the message of the SEMANTICS_FAILED that ended
\* the walk ("" while it runs), and trace the name stack each Build found.
NewAnalysisData ==
  [ops |-> <<>>, labelMap |-> {}, nameStack |-> <<>>, counter |-> 0,
   assignMap |-> {}, died |-> "", trace |-> <<>>, referenced |-> {}]

Emit(ad, newOps) == [ad EXCEPT !.ops = @ \o newOps]
Die(ad, message) == [ad EXCEPT !.died = message]

AddAssign(ad, symbol, label) ==
  [ad EXCEPT !.assignMap = @ \cup {<<symbol, label>>}]

\* the labels of the std::set in ascending order, each one taken as it is
\* for a LinearLabelRef
RECURSIVE Ascending(_)
Ascending(labels) ==
  IF labels = {} THEN <<>>
  ELSE LET least == CHOOSE l \in labels : \A k \in labels : l <= k
       IN <<least>> \o Ascending(labels \ {least})
GetAssign(assignMap, symbol) ==
  Ascending({p[2] : p \in {q \in assignMap : q[1] = symbol}})

\* the label and the analysis data after it
FetchLabel(ad, label) ==
  IF Has(ad.labelMap, label)
  THEN [ref |-> Lookup(ad.labelMap, label), ad |-> ad]
  ELSE [ref |-> ad.counter,
        ad |-> [ad EXCEPT !.counter = @ + 1,
                          !.labelMap = @ \cup {<<label, ad.counter>>},
                          !.referenced = @ \cup {ad.counter}]]

\* BuildNewLabel
BuildNewLabel(ad) == [ref |-> ad.counter, ad |-> [ad EXCEPT !.counter = @ + 1]]

\* ControlFlowAnalyzer::findLabel: as FetchLabel, without setReferenced
findLabel(ad, label) ==
  IF Has(ad.labelMap, label)
  THEN [ref |-> Lookup(ad.labelMap, label), ad |-> ad]
  ELSE [ref |-> ad.counter,
        ad |-> [ad EXCEPT !.counter = @ + 1,
                          !.labelMap = @ \cup {<<label, ad.counter>>}]]

\* LinearLabelBuilder: referenced is constructed with referencedSize
\* elements, and neither getNext nor setReferenced changes its size (reserve
\* changes the capacity only).  The flags are written and never read.
\* getNext and setReferenced index referenced with the label: once counter is
\* above referencedSize a label beyond the size has been indexed, which is
\* undefined: the analysis goes on as if nothing happened, or it ends.
referencedSize == 32
getNextOutcomes(ad) ==
  IF ad.counter > referencedSize /\ ad.died = ""
  THEN {ad, Die(ad, "undefined")} ELSE {ad}

\* the entry itself, or <<>> where the code ends in SEMANTICS_FAILED
RECURSIVE FindStackFrom(_, _, _)
FindStackFrom(stack, key, i) ==
  IF i = 0 THEN <<>>
  ELSE IF stack[i][1] = key THEN stack[i]
  ELSE FindStackFrom(stack, key, i - 1)
FindStack(stack, key) == FindStackFrom(stack, key, Len(stack))

\* a variant that takes the entry on top of the stack, loop or not
NearestFromTop(stack, i) ==
  IF i = 0 THEN unspecifiedLabel ELSE stack[i][3]

RECURSIVE NearestFrom(_, _)
NearestFrom(stack, i) ==
  IF i = 0 THEN unspecifiedLabel
  ELSE IF stack[i][3] # unspecifiedLabel THEN stack[i][3]
  ELSE NearestFrom(stack, i - 1)
\* unspecifiedLabel where the code ends in SEMANTICS_FAILED
NearestEnclosingDoConstruct(ad) == NearestFrom(ad.nameStack, Len(ad.nameStack))

\* [refs, ad]
RECURSIVE toLabelRef(_, _)
toLabelRef(ad, labels) ==
  IF labels = <<>> THEN [refs |-> <<>>, ad |-> ad]
  ELSE LET first == FetchLabel(ad, Head(labels))
           rest == toLabelRef(first.ad, Tail(labels))
       IN [refs |-> <<first.ref>> \o rest.refs, ad |-> rest.ad]

\* labels holds the ERR=, EOR= and END= labels of the statement, 0 for none
SpecRef(ad, label) ==
  IF label = 0 THEN [ref |-> unspecifiedLabel, ad |-> ad] ELSE FetchLabel(ad, label)

errLabelSpec(ad, ec, path) ==
  IF ec.labels[1] # 0
  THEN LET err == FetchLabel(ad, ec.labels[1])
           next == err.ad.counter
       IN Emit([err.ad EXCEPT !.counter = @ + 1],
               <<LinearSwitchingIO(ec.kind, path, next, err.ref,
                                   unspecifiedLabel, unspecifiedLabel),
                 LinearLabel(next)>>)
  ELSE Emit(ad, <<LinearAction(ec.kind, path)>>)

threeLabelSpec(ad, ec, path) ==
  IF ec.labels[1] # 0 \/ ec.labels[2] # 0 \/ ec.labels[3] # 0
  THEN LET err == SpecRef(ad, ec.labels[1])
           eor == SpecRef(err.ad, ec.labels[2])
           end == SpecRef(eor.ad, ec.labels[3])
           next == end.ad.counter
       IN Emit([end.ad EXCEPT !.counter = @ + 1],
               <<LinearSwitchingIO(ec.kind, path, next, err.ref, eor.ref, end.ref),
                 LinearLabel(next)>>)
  ELSE Emit(ad, <<LinearAction(ec.kind, path)>>)

\* the address of the optional name of a construct, <<>> for nullptr
getName(construct, path) ==
  IF construct.name # "" THEN <<path, "construct-name">> ELSE <<>>

\* LinearOp::Build for the action statement ec at path
Build(ad0, ec, path) ==
  LET ad == [ad0 EXCEPT !.trace = Append(@, <<path, ad0.nameStack>>)]
      key == <<path, "v">>
      named == FindStack(ad.nameStack, key)
      nearest == NearestEnclosingDoConstruct(ad)
  IN CASE ec.kind = "AssignStmt" ->
            Emit(AddAssign(ad, ec.symbol, ec.labels[1]),
                 <<LinearAction(ec.kind, path)>>)
       [] ec.kind = "CycleStmt" ->
            IF ec.name # ""
            THEN IF named = <<>> THEN Die(ad, "construct name not on stack")
                 ELSE Emit(ad, <<LinearGoto(ec.kind, path, named[3])>>)
            ELSE IF nearest = unspecifiedLabel THEN Die(ad, "CYCLE|EXIT not in loop")
                 ELSE Emit(ad, <<LinearGoto(ec.kind, path, nearest)>>)
       [] ec.kind = "ExitStmt" ->
            IF ec.name # ""
            THEN IF named = <<>> THEN Die(ad, "construct name not on stack")
                 ELSE Emit(ad, <<LinearGoto(ec.kind, path, named[2])>>)
            ELSE IF nearest = unspecifiedLabel THEN Die(ad, "CYCLE|EXIT not in loop")
                 ELSE Emit(ad, <<LinearGoto(ec.kind, path, nearest)>>)
       [] ec.kind = "GotoStmt" ->
            LET dest == FetchLabel(ad, ec.labels[1])
            IN Emit(dest.ad, <<LinearGoto(ec.kind, path, dest.ref)>>)
       [] ec.kind = "CallStmt" ->
            IF ec.labels # <<>>
            THEN LET next == ad.counter
                     labels == toLabelRef([ad EXCEPT !.counter = @ + 1], ec.labels)
                 IN Emit(labels.ad,
                         <<LinearSwitch(ec.kind, path, Append(labels.refs, next)),
                           LinearLabel(next)>>)
            ELSE Emit(ad, <<LinearAction(ec.kind, path)>>)
       [] ec.kind \in {"FailImageStmt", "ReturnStmt"} ->
            Emit(ad, <<LinearReturn(ec.kind, path)>>)
       [] ec.kind = "StopStmt" ->
            Emit(ad, <<LinearAction(ec.kind, path), LinearReturn(ec.kind, path)>>)
       [] ec.kind = "ReadStmt" -> threeLabelSpec(ad, ec, path)
       [] ec.kind = "OpenStmt" -> errLabelSpec(ad, ec, path)
       [] ec.kind = "ComputedGotoStmt" ->
            LET next == ad.counter
                labels == toLabelRef([ad EXCEPT !.counter = @ + 1], ec.labels)
            IN Emit(labels.ad,
                    <<LinearSwitch(ec.kind, path, Append(labels.refs, next)),
                      LinearLabel(next)>>)
       [] ec.kind = "ArithmeticIfStmt" ->
            LET labels == toLabelRef(ad, ec.labels)
            IN Emit(labels.ad, <<LinearSwitch(ec.kind, path, labels.refs)>>)
       [] ec.kind = "AssignedGotoStmt" ->
            LET labels == toLabelRef(ad, ec.labels)
            IN Emit(labels.ad, <<LinearIndirectGoto(ec.symbol, labels.refs)>>)
       [] ec.kind = "IfStmt" ->
            LET then == ad.counter
                endif == ad.counter + 1
            IN Emit([ad EXCEPT !.counter = @ + 2],
                    <<LinearConditionalGoto(ec.kind, path, then, endif),
                      LinearLabel(then), LinearAction(ec.kind, path),
                      LinearLabel(endif)>>)
       [] ec.kind \in {"AssignmentStmt", "ContinueStmt"} ->
            Emit(ad, <<LinearAction(ec.kind, path)>>)

\* ControlFlowAnalyzer: Walk over the items of a block from item i on
RECURSIVE Walk(_, _, _, _)

\* Pre(const parser::Statement<A> &)
PreStatement(ad, stmt, path) ==
  LET found == findLabel(ad, stmt.label)
      labelled == IF stmt.label # 0
                  THEN Emit(found.ad, <<LinearLabel(found.ref)>>) ELSE ad
  IN Build(labelled, stmt, path)

\* a handler that leaves its entry on the name stack
PopNameSkipped(ad) == ad

PopName(ad) ==
  [ad EXCEPT !.nameStack = SubSeq(@, 1, Len(@) - 1)]

\* Pre(const parser::DoConstruct &)
PreDoConstruct(ad, construct, path) ==
  LET backedgeLab == ad.counter
      incrementLab == ad.counter + 1
      entryLab == ad.counter + 2
      exitLab == ad.counter + 3
      name == getName(construct, path)
      begun == Emit([ad EXCEPT !.counter = @ + 4,
                               !.nameStack = Append(@, <<name, exitLab, incrementLab>>),
                               !.referenced = @ \cup {exitLab, incrementLab,
                                                      backedgeLab, entryLab}],
                    <<LinearBeginConstruct(construct.kind, path),
                      LinearGoto("LinearArtificial", <<>>, backedgeLab),
                      LinearLabel(incrementLab),
                      LinearDoIncrement(path),
                      LinearLabel(backedgeLab),
                      LinearDoCompare(path),
                      LinearConditionalGoto("NonLabelDoStmt", path, entryLab, exitLab),
                      LinearLabel(entryLab)>>)
      walked == Walk(begun, construct.block, path, 1)
  IN IF walked.died # "" THEN walked
     ELSE PopName(Emit(walked,
                       <<LinearGoto("LinearArtificial", <<>>, incrementLab),
                         LinearEndConstruct(construct.kind, path),
                         LinearLabel(exitLab)>>))

\* ElseIfBlocks without the update of elseLab after an ELSE IF block
RECURSIVE ElseIfBlocksSameElse(_, _, _, _, _, _)
ElseIfBlocksSameElse(ad, block, path, i, elseLab, exitLab) ==
  IF i > Len(block) \/ ad.died # "" THEN [ad |-> ad, elseLab |-> elseLab]
  ELSE IF block[i].kind # "ElseIfBlock"
  THEN ElseIfBlocksSameElse(ad, block, path, i + 1, elseLab, exitLab)
  ELSE LET newThenLab == ad.counter
           newElseLab == ad.counter + 1
           started == Emit([ad EXCEPT !.counter = @ + 2,
                                      !.referenced = @ \cup {newThenLab, newElseLab}],
                           <<LinearLabel(elseLab),
                             LinearConditionalGoto("ElseIfStmt", Append(path, i),
                                                   newThenLab, newElseLab),
                             LinearLabel(newThenLab)>>)
           walked == Walk(started, block[i].block, Append(path, i), 1)
           done == IF walked.died # "" THEN walked
                   ELSE Emit(walked, <<LinearGoto("LinearArtificial", <<>>, exitLab)>>)
       IN ElseIfBlocksSameElse(done, block, path, i + 1, elseLab, exitLab)

\* Pre(const parser::IfConstruct &): the loop over the ELSE IF blocks, from
\* node i of the block of the construct on; [ad, elseLab]
RECURSIVE ElseIfBlocks(_, _, _, _, _, _)
ElseIfBlocks(ad, block, path, i, elseLab, exitLab) ==
  IF i > Len(block) \/ ad.died # "" THEN [ad |-> ad, elseLab |-> elseLab]
  ELSE IF block[i].kind # "ElseIfBlock"
  THEN ElseIfBlocks(ad, block, path, i + 1, elseLab, exitLab)
  ELSE LET newThenLab == ad.counter
           newElseLab == ad.counter + 1
           started == Emit([ad EXCEPT !.counter = @ + 2,
                                      !.referenced = @ \cup {newThenLab, newElseLab}],
                           <<LinearLabel(elseLab),
                             LinearConditionalGoto("ElseIfStmt", Append(path, i),
                                                   newThenLab, newElseLab),
                             LinearLabel(newThenLab)>>)
           walked == Walk(started, block[i].block, Append(path, i), 1)
           done == IF walked.died # "" THEN walked
                   ELSE Emit(walked, <<LinearGoto("LinearArtificial", <<>>, exitLab)>>)
       IN ElseIfBlocks(done, block, path, i + 1, newElseLab, exitLab)

\* the walk over the ELSE block, if there is one
ElseBlock(ad, block, path) ==
  LET elses == {i \in 1..Len(block) : block[i].kind = "ElseBlock"}
  IN IF elses = {} \/ ad.died # "" THEN ad
     ELSE LET i == CHOOSE j \in elses : TRUE
          IN Walk(ad, block[i].block, Append(path, i), 1)

\* Pre(const parser::IfConstruct &)
PreIfConstruct(ad, construct, path) ==
  LET thenLab == ad.counter
      elseLab == ad.counter + 1
      exitLab == ad.counter + 2
      name == getName(construct, path)
      begun == Emit([ad EXCEPT !.counter = @ + 3,
                               !.nameStack = Append(@, <<name, exitLab, unspecifiedLabel>>),
                               !.referenced = @ \cup {exitLab, thenLab, elseLab}],
                    <<LinearBeginConstruct(construct.kind, path),
                      LinearConditionalGoto("IfThenStmt", path, thenLab, elseLab),
                      LinearLabel(thenLab)>>)
      walked == Walk(begun, construct.block, path, 1)
      then == IF walked.died # "" THEN walked
              ELSE Emit(walked, <<LinearGoto("LinearArtificial", <<>>, exitLab)>>)
      elseIfs == ElseIfBlocks(then, construct.block, path, 1, elseLab, exitLab)
      else == ElseBlock(IF elseIfs.ad.died # "" THEN elseIfs.ad
                        ELSE Emit(elseIfs.ad, <<LinearLabel(elseIfs.elseLab)>>),
                        construct.block, path)
  IN IF else.died # "" THEN else
     ELSE PopName(Emit(else,
                       <<LinearGoto("LinearArtificial", <<>>, exitLab),
                         LinearLabel(exitLab),
                         LinearEndConstruct(construct.kind, path)>>))

\* linearConstruct: Pre(const parser::AssociateConstruct &), Pre(const
\* parser::ChangeTeamConstruct &), Pre(const parser::CriticalConstruct &)
linearConstruct(ad, construct, path) ==
  LET label == ad.counter
      name == getName(construct, path)
      begun == Emit([ad EXCEPT !.counter = @ + 1,
                               !.nameStack = Append(@, <<name, label, unspecifiedLabel>>),
                               !.referenced = @ \cup {label}],
                    <<LinearBeginConstruct(construct.kind, path)>>)
      walked == Walk(begun, construct.block, path, 1)
  IN IF walked.died # "" THEN walked
     ELSE PopName(Emit(walked,
                       <<LinearLabel(label),
                         LinearEndConstruct(construct.kind, path)>>))

\* the walk over the statements of a WHERE or FORALL body, which are no
\* action statements: Pre(const parser::Statement<A> &) emits their labels
RECURSIVE WalkLabels(_, _, _)
WalkLabels(ad, block, i) ==
  IF i > Len(block) THEN ad
  ELSE LET found == findLabel(ad, block[i].label)
       IN WalkLabels(IF block[i].label # 0
                     THEN Emit(found.ad, <<LinearLabel(found.ref)>>) ELSE ad,
                     block, i + 1)

\* Pre(const parser::WhereConstruct &), Pre(const parser::ForallConstruct &)
PreWhereConstruct(ad, construct, path) ==
  LET label == ad.counter
      name == getName(construct, path)
      begun == Emit([ad EXCEPT !.counter = @ + 1,
                               !.nameStack = Append(@, <<name, label, unspecifiedLabel>>),
                               !.referenced = @ \cup {label}],
                    <<LinearBeginConstruct(construct.kind, path)>>)
      walked == WalkLabels(begun, construct.block, 1)
  IN PopName(Emit(walked,
                  <<LinearLabel(label),
                    LinearEndConstruct(construct.kind, path)>>))

\* Multiway for a SELECT RANK or SELECT TYPE construct without a case (N = 0)
Multiway(ad, construct, path) ==
  LET exitLab == ad.counter
      name == getName(construct, path)
  IN PopName(Emit([ad EXCEPT !.counter = @ + 1,
                             !.nameStack = Append(@, <<name, exitLab, unspecifiedLabel>>),
                             !.referenced = @ \cup {exitLab}],
                  <<LinearBeginConstruct(construct.kind, path),
                    LinearLabel(exitLab),
                    LinearEndConstruct(construct.kind, path)>>))

\* Pre(const parser::BlockConstruct &)
PreBlockConstruct(ad, construct, path) ==
  LET label == ad.counter
      name == getName(construct, path)
      begun == Emit([ad EXCEPT !.counter = @ + 1,
                               !.nameStack = Append(@, <<name, label, unspecifiedLabel>>),
                               !.referenced = @ \cup {label}],
                    <<LinearBeginConstruct(construct.kind, path)>>)
      walked == Walk(begun, construct.block, path, 1)
  IN IF walked.died # "" THEN walked
     ELSE PopName(Emit(walked,
                       <<LinearEndConstruct(construct.kind, path),
                         LinearLabel(label)>>))

PreConstruct(ad, construct, path) ==
  CASE construct.kind = "DoConstruct" -> PreDoConstruct(ad, construct, path)
    [] construct.kind = "IfConstruct" -> PreIfConstruct(ad, construct, path)
    [] construct.kind = "BlockConstruct" -> PreBlockConstruct(ad, construct, path)
    [] construct.kind \in {"AssociateConstruct", "ChangeTeamConstruct",
                           "CriticalConstruct"} -> linearConstruct(ad, construct, path)
    [] construct.kind \in {"WhereConstruct", "ForallConstruct"} ->
         PreWhereConstruct(ad, construct, path)
    [] construct.kind \in {"SelectRankConstruct", "SelectTypeConstruct"} ->
         Multiway(ad, construct, path)

Walk(ad, block, path, i) ==
  IF i > Len(block) \/ ad.died # "" THEN ad
  ELSE LET at == Append(path, i)
           visited == IF block[i].kind \in Constructs
                      THEN PreConstruct(ad, block[i], at)
                      ELSE IF block[i].kind \in IfParts THEN ad
                      ELSE PreStatement(ad, block[i], at)
       IN Walk(visited, block, path, i + 1)

(***************************************************************************)
(* The builder and the procedure under construction.  A block is a record   *)
(* [region, stmts, preds]; blocks are named by their position in the list   *)
(* of blocks of the procedure and 0 is the null block pointer.  A statement *)
(* is a record [insn, succ, operand], succ being the list of successor      *)
(* blocks of a terminator and operand the variable of an indirect branch.   *)
(* died is the message of the CHECK or DIE that ended the      *)
(* lowering, or "undefined" once the behaviour of the program is undefined. *)
(***************************************************************************)
Terminators ==
  {"Branch", "ConditionalBranch", "Switch", "IndirectBranch", "Return", "Unreachable"}

\* FortranIRLowering::ProcessRoutine, up to the walk: a procedure with one
\* region and one empty block, the builder at that block
NewBuilder ==
  [blocks |-> <<[region |-> 1, stmts |-> <<>>, preds |-> <<>>]>>,
   regions |-> <<0>>, cursorRegion |-> 1, cursorBlock |-> 1,
   blockMap |-> {}, controlFlowEdgesToAdd |-> <<>>, doMap |-> {}, skip |-> FALSE,
   died |-> "", regionAt |-> <<>>, cursorAt |-> <<>>]

Fail(b, message) == [b EXCEPT !.died = message]

CreateBlock(b, region) ==
  [b EXCEPT !.blocks = Append(@, [region |-> region, stmts |-> <<>>, preds |-> <<>>])]

SetInsertionPoint(b, bb) ==
  [b EXCEPT !.cursorBlock = bb, !.cursorRegion = b.blocks[bb].region]

ClearInsertionPoint(b) == [b EXCEPT !.cursorBlock = 0]

CheckInsertionPoint(b) ==
  IF b.cursorBlock = 0
  THEN SetInsertionPoint(CreateBlock(b, b.cursorRegion), Len(b.blocks) + 1)
  ELSE b

\* BasicBlock::addPred
addPred(preds, bb) ==
  IF \E i \in 1..Len(preds) : preds[i] = bb THEN preds ELSE Append(preds, bb)

\* the successor blocks of a terminator, in the order of its operands
succ_blocks(s) == s.succ

Insert(b, insn, succ) ==
  IF b.died # "" THEN b
  ELSE IF b.cursorBlock = 0 THEN Fail(b, "CHECK(GetInsertionPoint())")
  ELSE [b EXCEPT !.blocks[b.cursorBlock].stmts =
                    Append(@, [insn |-> insn, succ |-> succ, operand |-> ""])]

\* a Store whose value, the operand of the statement, is a block
CreateStore(b, value) ==
  LET inserted == Insert(b, "Store", <<>>)
  IN IF inserted.died # "" THEN inserted
     ELSE [inserted EXCEPT
             !.blocks[b.cursorBlock].stmts[Len(b.blocks[b.cursorBlock].stmts) + 1].operand =
                value]

RECURSIVE AddPreds(_, _, _, _)
AddPreds(blocks, succ, i, bb) ==
  IF i > Len(succ) THEN blocks
  ELSE AddPreds([blocks EXCEPT ![succ[i]].preds = addPred(@, bb)], succ, i + 1, bb)

\* a variant that leaves the predecessor lists alone
InsertTerminatorNoPreds(b, insn, succ) == Insert(b, insn, succ)

InsertTerminator(b, insn, succ) ==
  LET inserted == Insert(b, insn, succ)
  IN IF inserted.died # "" THEN inserted
     ELSE [inserted EXCEPT
             !.blocks = AddPreds(@, succ_blocks([insn |-> insn, succ |-> succ, operand |-> ""]),
                                 1, b.cursorBlock)]

\* several statements that are no terminators, one Insert each
RECURSIVE InsertAll(_, _)
InsertAll(b, insns) ==
  IF insns = <<>> THEN b
  ELSE InsertAll(Insert(b, Head(insns), <<>>), Tail(insns))

CreateBranch(b, block) == InsertTerminator(b, "Branch", <<block>>)
CreateConditionalBranch(b, trueBlock, falseBlock) ==
  InsertTerminator(b, "ConditionalBranch", <<trueBlock, falseBlock>>)
CreateSwitch(b, defaultCase, rest) ==
  InsertTerminator(b, "Switch", <<defaultCase>> \o rest)
\* the variable of the branch is the operand of the statement, "nullptr" for
\* a null Variable pointer
CreateIndirectBr(b, v, targets) ==
  LET inserted == InsertTerminator(b, "IndirectBranch", targets)
  IN IF inserted.died # "" THEN inserted
     ELSE [inserted EXCEPT
             !.blocks[b.cursorBlock].stmts[Len(b.blocks[b.cursorBlock].stmts) + 1].operand = v]

Queue(b, closure) ==
  [b EXCEPT !.controlFlowEdgesToAdd = Append(@, closure)]

\* the blocks of the labels, up to the first label that has no block
RECURSIVE BlocksOf(_, _)
BlocksOf(map, labels) ==
  IF labels = <<>> \/ ~Has(map, Head(labels)) THEN <<>>
  ELSE <<Lookup(map, Head(labels))>> \o BlocksOf(map, Tail(labels))

AllIn(map, labels) == \A i \in 1..Len(labels) : Has(map, labels[i])

AddOrQueueBranch(b, dest) ==
  IF Has(b.blockMap, dest) THEN CreateBranch(b, Lookup(b.blockMap, dest))
  ELSE Queue(b, [arc |-> "Branch", block |-> b.cursorBlock, defaultLabel |-> dest,
                 labels |-> <<>>, values |-> 0])

AddOrQueueCGoto(b, trueBlock, falseBlock) ==
  IF Has(b.blockMap, trueBlock) /\ Has(b.blockMap, falseBlock)
  THEN CreateConditionalBranch(b, Lookup(b.blockMap, trueBlock),
                               Lookup(b.blockMap, falseBlock))
  ELSE Queue(b, [arc |-> "CGoto", block |-> b.cursorBlock, defaultLabel |-> trueBlock,
                 labels |-> <<falseBlock>>, values |-> 0])

\* values is the number of values handed in with the labels
AddOrQueueSwitch(b, defaultLabel, values, labels) ==
  IF ~Has(b.blockMap, defaultLabel) \/
     (values = Len(labels) /\ ~AllIn(b.blockMap, labels))
  THEN Queue(b, [arc |-> "Switch", block |-> b.cursorBlock,
                 defaultLabel |-> defaultLabel, labels |-> labels, values |-> values])
  ELSE IF values # Len(labels) THEN Fail(b, "CHECK(values.size() == labels.size())")
  ELSE CreateSwitch(b, Lookup(b.blockMap, defaultLabel), BlocksOf(b.blockMap, labels))

AddOrQueueIGoto(b, assignMap, symbol, labels) ==
  LET useLabels == IF labels = <<>> THEN GetAssign(assignMap, symbol) ELSE labels
  IN IF ~AllIn(b.blockMap, useLabels)
     THEN Queue(b, [arc |-> "IGoto", block |-> b.cursorBlock,
                    defaultLabel |-> unspecifiedLabel, labels |-> useLabels,
                    values |-> 0])
     ELSE CreateIndirectBr(b, symbol, BlocksOf(b.blockMap, useLabels))

\* one queued closure, called with the map
Arc(b0, arc, map) ==
  LET b == SetInsertionPoint(b0, arc.block)
  IN CASE arc.arc = "Branch" ->
            IF ~Has(map, arc.defaultLabel)
            THEN Fail(b, "CHECK(map.find(dest) != map.end())")
            ELSE CreateBranch(b, Lookup(map, arc.defaultLabel))
       [] arc.arc = "CGoto" ->
            IF ~Has(map, arc.defaultLabel) \/ ~Has(map, arc.labels[1])
            THEN Fail(b, "CHECK(map.find(dest) != map.end())")
            ELSE CreateConditionalBranch(b, Lookup(map, arc.defaultLabel),
                                         Lookup(map, arc.labels[1]))
       [] arc.arc = "Switch" ->
            IF arc.values < Len(arc.labels) \/ ~AllIn(map, arc.labels) \/
               ~Has(map, arc.defaultLabel)
            THEN Fail(b, "undefined")
            ELSE CreateSwitch(b, Lookup(map, arc.defaultLabel), BlocksOf(map, arc.labels))
       [] arc.arc = "IGoto" -> CreateIndirectBr(b, "nullptr", <<>>)

EnterRegion(b) ==
  LET region == Len(b.regions) + 1
      block == Len(b.blocks) + 1
      created == CreateBlock([b EXCEPT !.regions = Append(@, b.cursorRegion)], region)
  IN SetInsertionPoint(CreateBranch(CheckInsertionPoint(created), block), block)

ExitRegion(b) == [b EXCEPT !.cursorRegion = b.regions[b.cursorRegion]]

\* handleActionStatement for the statement kind of an Action operation
handleActionStatement(b, ad, stmt) ==
  CASE stmt.kind = "AssignmentStmt" -> InsertAll(b, <<"ApplyExpr", "LocateExpr", "Store">>)
    [] stmt.kind \in {"ReadStmt", "OpenStmt"} -> Insert(b, "IORuntime", <<>>)
    [] stmt.kind \in {"StopStmt", "FailImageStmt"} -> Insert(b, "Runtime", <<>>)
    [] stmt.kind = "CallStmt" -> Insert(b, "Call", <<>>)
    [] stmt.kind = "AssignStmt" ->
         LET label == FetchLabel(ad, stmt.labels[1]).ref
             located == Insert(b, "LocateExpr", <<>>)
         IN IF ~Has(b.blockMap, label) THEN Fail(located, "undefined")
            ELSE CreateStore(located, ToString(Lookup(b.blockMap, label)))
    [] stmt.kind \in {"ContinueStmt", "CycleStmt", "ExitStmt", "GotoStmt", "IfStmt",
                      "ReturnStmt", "ComputedGotoStmt", "ArithmeticIfStmt",
                      "AssignedGotoStmt"} ->
         Fail(b, "control should not reach here")

\* the node of the body of the subprogram at a path
RECURSIVE NodeAt(_, _)
NodeAt(block, path) ==
  IF Len(path) = 1 THEN block[path[1]]
  ELSE NodeAt(block[path[1]].block, Tail(path))

\* ComposeSwitchArgs: [defLab, values, labels]
ComposeSwitchArgs(op) ==
  IF op.u = "ArithmeticIfStmt"
  THEN [defLab |-> unspecifiedLabel, values |-> 0, labels |-> op.refs]
  ELSE [defLab |-> op.refs[Len(op.refs)], values |-> 0,
        labels |-> SubSeq(op.refs, 1, Len(op.refs) - 1)]

\* InitiateConstruct(const parser::NonLabelDoStmt *): doMap holds the DO
\* constructs that have a DO context
InitiateDo(b, construct, path) ==
  IF construct.symbol = LoopBounds
  THEN [InsertAll(b, <<"LocateExpr", "ApplyExpr", "ApplyExpr", "ApplyExpr", "Store">>)
          EXCEPT !.doMap = @ \cup {path}]
  ELSE b

\* FinishConstruct(const parser::NonLabelDoStmt *)
FinishConstruct(b, construct, path) ==
  IF construct.symbol = LoopBounds THEN [b EXCEPT !.doMap = @ \ {path}] ELSE b

\* GetBoundsInfo, then the instructions of handleLinearDoIncrement or
\* handleLinearDoCompare
WithBoundsInfo(b, path, insns) ==
  IF path \in b.doMap THEN InsertAll(b, insns)
  ELSE Fail(b, "CHECK(false && \"DO context not present\")")

\* BuildLoopLatchExpression
BuildLoopLatchExpression(b, construct, path) ==
  IF construct.symbol = LoopBounds
  THEN IF path \in b.doMap THEN b ELSE Fail(b, "undefined")
  ELSE Insert(b, "ApplyExpr", <<>>)

\* the LinearBeginConstruct case of ConstructFIR, before the label of the
\* construct is looked at: EnterRegion and InitiateConstruct
BeginConstruct(b, construct, path) ==
  CASE construct.kind = "DoConstruct" -> InitiateDo(EnterRegion(b), construct, path)
    [] construct.kind = "AssociateConstruct" ->
         InsertAll(EnterRegion(b), <<"ApplyExpr", "LocateExpr", "Store">>)
    [] construct.kind \in {"BlockConstruct", "ChangeTeamConstruct",
                           "SelectRankConstruct", "SelectTypeConstruct"} ->
         EnterRegion(b)
    [] construct.kind \in {"IfConstruct", "WhereConstruct"} ->
         Insert(b, "ApplyExpr", <<>>)
    [] construct.kind \in {"CriticalConstruct", "ForallConstruct"} -> b

\* the LinearEndConstruct case of ConstructFIR
EndConstruct(b, construct, path) ==
  CASE construct.kind = "DoConstruct" -> ExitRegion(FinishConstruct(b, construct, path))
    [] construct.kind \in {"BlockConstruct", "AssociateConstruct",
                           "ChangeTeamConstruct", "SelectTypeConstruct"} ->
         ExitRegion(b)
    [] construct.kind \in {"IfConstruct", "WhereConstruct", "CriticalConstruct",
                           "ForallConstruct", "SelectRankConstruct"} -> b

\* the body of the loop of ConstructFIR for the operation at iter
ConstructOp(b, body, ad, ops, iter) ==
  LET op == ops[iter]
      args == ComposeSwitchArgs(op)
      next == ops[iter + 1]
      begun == BeginConstruct(b, NodeAt(body, op.at), op.at)
  IN CASE op.op = "Label" ->
            LET newBlock == Len(b.blocks) + 1
                created == CreateBlock(b, b.cursorRegion)
                mapped == [created EXCEPT !.blockMap =
                             IF Has(@, op.target) THEN @ ELSE @ \cup {<<op.target, newBlock>>}]
                branched == IF b.cursorBlock # 0 THEN CreateBranch(mapped, newBlock)
                            ELSE mapped
            IN SetInsertionPoint(branched, newBlock)
       [] op.op = "Goto" ->
            ClearInsertionPoint(AddOrQueueBranch(CheckInsertionPoint(b), op.target))
       [] op.op = "IndirectGoto" ->
            ClearInsertionPoint(
              AddOrQueueIGoto(CheckInsertionPoint(b), ad.assignMap, op.symbol, op.refs))
       [] op.op = "Return" ->
            ClearInsertionPoint(
              IF op.u = "ReturnStmt"
              THEN InsertTerminator(Insert(CheckInsertionPoint(b), "ApplyExpr", <<>>),
                                    "Return", <<>>)
              ELSE InsertTerminator(Insert(CheckInsertionPoint(b), "Runtime", <<>>),
                                    "Unreachable", <<>>))
       [] op.op = "CondGoto" ->
            ClearInsertionPoint(
              AddOrQueueCGoto(
                IF op.u = "NonLabelDoStmt"
                THEN BuildLoopLatchExpression(CheckInsertionPoint(b),
                                              NodeAt(body, op.at), op.at)
                ELSE Insert(CheckInsertionPoint(b), "ApplyExpr", <<>>),
                op.target, op.falseLabel))
       [] op.op = "SwitchingIO" ->
            ClearInsertionPoint(
              AddOrQueueSwitch(CheckInsertionPoint(b), op.target, 0, <<>>))
       [] op.op = "Switch" ->
            ClearInsertionPoint(
              AddOrQueueSwitch(Insert(CheckInsertionPoint(b), "ApplyExpr", <<>>),
                               args.defLab, args.values, args.labels))
       [] op.op = "Action" ->
            handleActionStatement(CheckInsertionPoint(b), ad, NodeAt(body, op.at))
       [] op.op = "DoIncrement" ->
            WithBoundsInfo(CheckInsertionPoint(b), op.at, <<"Load", "Increment">>)
       [] op.op = "DoCompare" ->
            WithBoundsInfo(CheckInsertionPoint(b), op.at, <<"Load", "DoCondition">>)
       [] op.op = "BeginConstruct" ->
            IF begun.died = "" /\ next.op = "Label"
            THEN [begun EXCEPT !.blockMap =
                    IF Has(@, next.target) THEN @
                    ELSE @ \cup {<<next.target, begun.cursorBlock>>},
                               !.skip = TRUE]
            ELSE begun
       [] op.op = "EndConstruct" ->
            EndConstruct(b, NodeAt(body, op.at), op.at)

\* FortranIRLowering::ConstructFIR from the operation at iter on
\* regionAt[i] and cursorAt[i] record the current region and the insertion
\* block after the operation at i, for the operations that were passed
RECURSIVE ConstructFrom(_, _, _, _, _)
ConstructFrom(b, body, ad, ops, iter) ==
  IF iter > Len(ops) \/ b.died # "" THEN b
  ELSE LET done == IF b.skip THEN [b EXCEPT !.skip = FALSE]
                   ELSE ConstructOp(b, body, ad, ops, iter)
       IN IF done.died # "" THEN done
          ELSE ConstructFrom([done EXCEPT !.regionAt = Append(@, done.cursorRegion),
                                          !.cursorAt = Append(@, done.cursorBlock)],
                             body, ad, ops, iter + 1)

ConstructFIR(b, body, ad) == ConstructFrom(b, body, ad, ad.ops, 1)

\* FortranIRLowering::DrawRemainingArcs from the closure at i on
RECURSIVE DrawFrom(_, _)
DrawFrom(b, i) ==
  IF i > Len(b.controlFlowEdgesToAdd) \/ b.died # "" THEN b
  ELSE DrawFrom(Arc(b, b.controlFlowEdgesToAdd[i], b.blockMap), i + 1)

DrawRemainingArcs(b) == DrawFrom(b, 1)

(***************************************************************************)
(* SpecLower: ProcessRoutine on one subprogram body.  The bodies are        *)
(*   1 x = ... ; [ASSIGN ... TO v ;] frame{ core } ; 20 x = ... ;           *)
(*   25 x = ... [; RETURN]                                                  *)
(* where core is an action statement, alone or followed by an assignment,   *)
(* and frame a nest of DO, IF and BLOCK constructs around it, at most       *)
(* MaxNest deep.  Every body is a conforming one: a label                   *)
(* that is named is defined, a CYCLE or EXIT is inside the construct it     *)
(* belongs to, construct names differ, and no branch enters a construct.    *)
(***************************************************************************)
MaxNest == 2

ConstructNames == <<"outer", "middle", "inner">>

Leaves ==
  {Statement(k, 0, "", <<>>, "") :
     k \in {"AssignmentStmt", "ContinueStmt", "ReturnStmt", "StopStmt"}}
  \cup {[Statement("IfStmt", 0, "", <<>>, "") EXCEPT
           !.block = <<Statement("AssignmentStmt", 0, "", <<>>, "")>>]}
  \cup {Statement("GotoStmt", 0, "", <<l>>, "") : l \in {1, 20, 30}}
  \cup {Statement(k, 0, n, <<>>, "") :
          k \in {"CycleStmt", "ExitStmt"}, n \in {"", "outer", "middle"}}
  \cup {Statement("ArithmeticIfStmt", 0, "", <<1, 20, 25>>, ""),
        Statement("ComputedGotoStmt", 0, "", <<1, 20>>, ""),
        Statement("CallStmt", 0, "", <<1, 20>>, ""),
        Statement("CallStmt", 0, "", <<>>, ""),
        Statement("FailImageStmt", 0, "", <<>>, "")}
  \cup {Statement("AssignedGotoStmt", 0, "", ls, "v") : ls \in {<<>>, <<1>>, <<1, 20>>}}
  \cup {Statement("ReadStmt", 0, "", ls, "") :
          ls \in {<<0, 0, 0>>, <<20, 0, 0>>, <<0, 0, 1>>, <<1, 20, 25>>}}
  \cup {Statement("OpenStmt", 0, "", ls, "") : ls \in {<<0, 0, 0>>, <<20, 0, 0>>}}

\* a statement alone, or followed by an assignment statement
Cores ==
  {<<leaf>> : leaf \in Leaves}
  \cup {<<leaf, Statement("AssignmentStmt", 0, "", <<>>, "")>> : leaf \in Leaves}

FrameKinds == {"DoConstruct", "IfConstruct", "BlockConstruct"}

Wrappers(level) ==
  [kind : FrameKinds, name : {"", ConstructNames[level]},
   label : IF level = 1 THEN {0, 30} ELSE {0}]

RECURSIVE FramesOf(_, _)
FramesOf(level, depth) ==
  IF depth = 0 THEN {<<>>}
  ELSE {<<w>> \o f : w \in Wrappers(level), f \in FramesOf(level + 1, depth - 1)}
Frames == UNION {FramesOf(1, depth) : depth \in 0..MaxNest}

AssignLists == {<<>>, <<1>>, <<20>>, <<1, 20>>}

Names(core, labels) ==
  \E i \in 1..Len(core) : \E j \in 1..Len(core[i].labels) : core[i].labels[j] \in labels

\* the conformance of core inside frame
Conforming(frame, core, assigns) ==
  /\ \A i \in 1..Len(core) :
       /\ core[i].kind \in {"CycleStmt", "ExitStmt"} /\ core[i].name = "" =>
            \E w \in 1..Len(frame) : frame[w].kind = "DoConstruct"
       /\ core[i].kind = "CycleStmt" /\ core[i].name # "" =>
            \E w \in 1..Len(frame) :
              frame[w].kind = "DoConstruct" /\ frame[w].name = core[i].name
       /\ core[i].kind = "ExitStmt" /\ core[i].name # "" =>
            \E w \in 1..Len(frame) : frame[w].name = core[i].name
  /\ Names(core, {30}) <=> (frame # <<>> /\ frame[1].label = 30)
  /\ (assigns # <<>>) <=>
       \E i \in 1..Len(core) : core[i].kind = "AssignedGotoStmt"

RECURSIVE Wrap(_, _)
Wrap(frame, core) ==
  IF frame = <<>> THEN core
  ELSE <<[Construct(frame[1].kind, frame[1].label, frame[1].name,
                    Wrap(Tail(frame), core))
            EXCEPT !.symbol = IF frame[1].kind = "DoConstruct" THEN LoopBounds ELSE ""]>>

Landing(label) == Statement("AssignmentStmt", label, "", <<>>, "")

Assigns(labels) ==
  [i \in 1..Len(labels) |-> Statement("AssignStmt", 0, "", <<labels[i]>>, "v")]

Body(frame, core, assigns, tail) ==
  <<Landing(1)>> \o Assigns(assigns) \o Wrap(frame, core)
    \o <<Landing(20), Landing(25)>> \o tail

Programs ==
  {Body(frame, core, assigns, tail) :
     <<frame, core, assigns>> \in
        {t \in Frames \X Cores \X AssignLists : Conforming(t[1], t[2], t[3])},
     tail \in {<<>>, <<Statement("ReturnStmt", 0, "", <<>>, "")>>}}

LowerInit ==
  /\ program \in Programs
  /\ analysis = NewAnalysisData
  /\ builder = NewBuilder
  /\ phase = "Walk"
  /\ SumIdle /\ fs = NoFiles /\ FileIdle /\ ColIdle /\ ModIdle

\* ProcessRoutine: Walk(here, linearize)
Linearize ==
  /\ phase = "Walk"
  /\ analysis' \in getNextOutcomes(Walk(NewAnalysisData, program, <<>>, 1))
  /\ phase' = IF analysis'.died # "" THEN "dead" ELSE "ConstructFIR"
  /\ UNCHANGED <<program, builder, sumVars, fs, fileVars, colVars, modVars>>

\* ProcessRoutine: ConstructFIR(ad)
Construct_FIR ==
  /\ phase = "ConstructFIR"
  /\ builder' = ConstructFIR(builder, program, analysis)
  /\ phase' = IF builder'.died # "" THEN "dead" ELSE "DrawRemainingArcs"
  /\ UNCHANGED <<program, analysis, sumVars, fs, fileVars, colVars, modVars>>

\* ProcessRoutine: DrawRemainingArcs()
DrawArcs ==
  /\ phase = "DrawRemainingArcs"
  /\ builder' = DrawRemainingArcs(builder)
  /\ phase' = IF builder'.died # "" THEN "dead" ELSE "Cleanup"
  /\ UNCHANGED <<program, analysis, sumVars, fs, fileVars, colVars, modVars>>

\* ProcessRoutine: Cleanup(), and the end of the life of ad
Cleanup ==
  /\ phase = "Cleanup"
  /\ builder' = [builder EXCEPT !.cursorBlock = 0, !.blockMap = {},
                                !.controlFlowEdgesToAdd = <<>>]
  /\ analysis' = NewAnalysisData
  /\ phase' = "done"
  /\ UNCHANGED <<program, sumVars, fs, fileVars, colVars, modVars>>

LowerNext == Linearize \/ Construct_FIR \/ DrawArcs \/ Cleanup

SpecLower == LowerInit /\ [][LowerNext]_vars

(***************************************************************************)
(* SpecConstructs: ProcessRoutine on the bodies                            *)
(*   1 x = ... ; [GOTO 20 ;] nest ; 20 x = ...                             *)
(*   1 x = ... ; nest ; x = ... ; 20 x = ...                               *)
(* where nest is a statement or a WHERE, FORALL, SELECT RANK or SELECT     *)
(* TYPE construct, inside at most MaxNest constructs that hold a block: a  *)
(* DO construct with any loop control, an IF construct with or without     *)
(* ELSE IF and ELSE blocks, a BLOCK, ASSOCIATE, CHANGE TEAM or CRITICAL    *)
(* construct.                                                              *)
(***************************************************************************)
Assignment == Statement("AssignmentStmt", 0, "", <<>>, "")

IfPart(kind) == Construct(kind, 0, "", <<Assignment>>)

IfTails ==
  {<<>>, <<IfPart("ElseIfBlock")>>, <<IfPart("ElseBlock")>>,
   <<IfPart("ElseIfBlock"), IfPart("ElseIfBlock"), IfPart("ElseBlock")>>}

Containers(inner) ==
  {DoConstruct(control, 0, "", inner) : control \in LoopControls}
  \cup {Construct("IfConstruct", 0, "", inner \o tail) : tail \in IfTails}
  \cup {Construct(k, 0, "", inner) :
          k \in {"BlockConstruct", "AssociateConstruct", "ChangeTeamConstruct",
                 "CriticalConstruct"}}

Terminals ==
  {<<Assignment>>, <<Statement("GotoStmt", 0, "", <<20>>, "")>>,
   <<Statement("StopStmt", 0, "", <<>>, "")>>}
  \cup {<<Construct(k, 0, "", <<Assignment>>)>> :
          k \in {"WhereConstruct", "ForallConstruct"}}
  \cup {<<Construct(k, 0, "", <<>>)>> :
          k \in {"SelectRankConstruct", "SelectTypeConstruct"}}

RECURSIVE Nests(_)
Nests(depth) ==
  IF depth = 0 THEN Terminals
  ELSE {<<c>> : c \in UNION {Containers(inner) : inner \in Nests(depth - 1)}}

\* the bodies with at most deepest constructs that hold a block
ConstructPrograms(deepest) ==
  {<<Landing(1)>> \o around[1] \o nest \o around[2] \o <<Landing(20)>> :
     around \in {<<<<>>, <<>>>>,
                 <<<<Statement("GotoStmt", 0, "", <<20>>, "")>>, <<>>>>,
                 <<<<>>, <<Assignment>>>>},
     nest \in UNION {Nests(depth) : depth \in 0..deepest}}

ConstructsInit ==
  /\ program \in ConstructPrograms(MaxNest)
  /\ analysis = NewAnalysisData
  /\ builder = NewBuilder
  /\ phase = "Walk"
  /\ SumIdle /\ fs = NoFiles /\ FileIdle /\ ColIdle /\ ModIdle

SpecConstructs == ConstructsInit /\ [][LowerNext]_vars

(***************************************************************************)
(* The claims about the lowering, on SpecLower.                            *)
(***************************************************************************)
\* ConstructFIR and DrawRemainingArcs have both returned
Lowered == phase \in {"Cleanup", "done"}

BlockSuccessors(blocks, bb) ==
  UNION {{blocks[bb].stmts[k].succ[i] : i \in 1..Len(blocks[bb].stmts[k].succ)} :
           k \in 1..Len(blocks[bb].stmts)}

RECURSIVE ReachFrom(_, _)
ReachFrom(blocks, seen) ==
  LET more == seen \cup UNION {BlockSuccessors(blocks, bb) : bb \in seen}
  IN IF more = seen THEN seen ELSE ReachFrom(blocks, more)

\* the blocks that can be reached from the entry block of the procedure
ReachableBlocks(blocks) == ReachFrom(blocks, {1})

TerminatorsIn(block) ==
  {k \in 1..Len(block.stmts) : block.stmts[k].insn \in Terminators}

\* C11: once ConstructFIR and the replay of the queued arcs are over, every
\* block that can be reached from the entry block holds exactly one
\* terminator and that terminator is its last statement, whatever the last
\* executable statement of the subprogram is.
C11_ReachableBlocksTerminated ==
  Lowered =>
    \A bb \in ReachableBlocks(builder.blocks) :
      TerminatorsIn(builder.blocks[bb]) = {Len(builder.blocks[bb].stmts)}

\* the labels a queued closure looks up in the map when it is called
ArcLabels(arc) ==
  IF arc.arc \in {"Branch", "CGoto", "Switch"}
  THEN {arc.defaultLabel} \cup {arc.labels[i] : i \in 1..Len(arc.labels)}
  ELSE {}

\* C12: when the queued arcs are about to be replayed, every label a queued
\* branch, conditional branch or switch names (its targets, its case labels
\* and its default) is a key of blockMap_ bound to a block of the procedure,
\* and the replay ends with every terminator created.
C12_QueuedLabelsBound ==
  /\ phase = "DrawRemainingArcs" =>
       \A i \in 1..Len(builder.controlFlowEdgesToAdd) :
         \A label \in ArcLabels(builder.controlFlowEdgesToAdd[i]) :
           /\ Has(builder.blockMap, label)
           /\ Lookup(builder.blockMap, label) \in 1..Len(builder.blocks)
  /\ phase = "dead" => builder.died \notin
       {"undefined", "CHECK(map.find(dest) != map.end())"}

PredsOf(blocks, bb) == {blocks[bb].preds[i] : i \in 1..Len(blocks[bb].preds)}

NoDuplicates(seq) == \A i, j \in 1..Len(seq) : seq[i] = seq[j] => i = j

\* the blocks a queued closure put a terminator into
ReplayedBlocks(b) ==
  {b.controlFlowEdgesToAdd[i].block : i \in 1..Len(b.controlFlowEdgesToAdd)}

\* C13: after the queued arcs are replayed, block A is in the predecessor
\* list of block B exactly when B is a successor of a terminator of A, and no
\* predecessor list names a block twice.
C13_PredecessorConsistency ==
  Lowered =>
    \A B \in 1..Len(builder.blocks) :
      /\ NoDuplicates(builder.blocks[B].preds)
      /\ \A A \in 1..Len(builder.blocks) :
           A \in PredsOf(builder.blocks, B) <=> B \in BlockSuccessors(builder.blocks, A)

\* a lowered procedure with a branch that was emitted directly and a branch
\* that was emitted by the replay, each with a successor
C13_Witness ==
  /\ Lowered
  /\ \E A \in ReplayedBlocks(builder) : BlockSuccessors(builder.blocks, A) # {}
  /\ \E A \in (1..Len(builder.blocks)) \ ReplayedBlocks(builder) :
       BlockSuccessors(builder.blocks, A) # {}

IsPrefix(p, q) == Len(p) <= Len(q) /\ SubSeq(q, 1, Len(p)) = p

\* the positions of the BeginConstruct operations of the DO constructs
DoBegins(ops) ==
  {i \in 1..Len(ops) : ops[i].op = "BeginConstruct" /\ ops[i].u = "DoConstruct"}

\* the position of the EndConstruct of the construct at path p, 0 if none
EndOf(ops, p) ==
  LET ends == {j \in 1..Len(ops) : ops[j].op = "EndConstruct" /\ ops[j].at = p}
  IN IF ends = {} THEN 0 ELSE CHOOSE j \in ends : TRUE

LabelPositions(ops, label) == {k \in 1..Len(ops) : ops[k] = LinearLabel(label)}

\* the operations from the BeginConstruct at i on follow the scheme of a DO
DoSchemaAt(ad, body, i) ==
  LET ops == ad.ops
      p == ops[i].at
      j == EndOf(ops, p)
  IN /\ i + 7 <= Len(ops) /\ j > i + 8 /\ j + 1 <= Len(ops)
     /\ LET backedge == ops[i + 1].target
            increment == ops[i + 2].target
            entry == ops[i + 6].target
            exit == ops[i + 6].falseLabel
            name == IF NodeAt(body, p).name = "" THEN <<>> ELSE <<p, "construct-name">>
        IN /\ ops[i + 1] = LinearGoto("LinearArtificial", <<>>, backedge)
           /\ ops[i + 2] = LinearLabel(increment)
           /\ ops[i + 3] = LinearDoIncrement(p)
           /\ ops[i + 4] = LinearLabel(backedge)
           /\ ops[i + 5] = LinearDoCompare(p)
           /\ ops[i + 6] = LinearOp("CondGoto", "NonLabelDoStmt", p, entry, exit, <<>>, "")
           /\ ops[i + 7] = LinearLabel(entry)
           /\ ops[j - 1] = LinearGoto("LinearArtificial", <<>>, increment)
           /\ ops[j + 1] = LinearLabel(exit)
           /\ Cardinality({backedge, increment, entry, exit}) = 4
           /\ unspecifiedLabel \notin {backedge, increment, entry, exit}
           /\ \A l \in {backedge, increment, entry, exit} :
                /\ Cardinality(LabelPositions(ops, l)) = 1
                /\ \A pair \in ad.labelMap : pair[2] # l
           \* the operations of the statements of the body, and only they,
           \* are between Label entry and Goto increment
           /\ \A k \in 1..Len(ops) :
                (ops[k].at # <<>> /\ ops[k].at # p) =>
                  (IsPrefix(p, ops[k].at) <=> (i + 7 < k /\ k < j - 1))
           /\ \A t \in 1..Len(ad.trace) :
                (Len(ad.trace[t][1]) = Len(p) + 1 /\ IsPrefix(p, ad.trace[t][1])) =>
                  LET stack == ad.trace[t][2]
                  IN stack # <<>> /\ stack[Len(stack)] = <<name, exit, increment>>

\* C14: for every DO construct the linearizer emits BeginConstruct, Goto
\* backedge, Label increment, DoIncrement, Label backedge, DoCompare,
\* CondGoto(doStmt, entry, exit), Label entry, the operations of the body,
\* Goto increment, EndConstruct, Label exit, with four distinct fresh labels,
\* and a statement of the body finds (construct name, exit, increment) on top
\* of the name stack.
C14_DoSchema ==
  phase = "ConstructFIR" =>
    \A i \in DoBegins(analysis.ops) : DoSchemaAt(analysis, program, i)

\* a walk that ended, over a DO construct inside a DO construct
C14_Witness ==
  /\ phase = "ConstructFIR"
  /\ \E i, k \in DoBegins(analysis.ops) :
       /\ Len(analysis.ops[k].at) = Len(analysis.ops[i].at) + 1
       /\ IsPrefix(analysis.ops[i].at, analysis.ops[k].at)
       /\ \E t \in 1..Len(analysis.trace) :
            /\ Len(analysis.trace[t][1]) = Len(analysis.ops[k].at) + 1
            /\ IsPrefix(analysis.ops[k].at, analysis.trace[t][1])

\* the paths of the action statements of a block
RECURSIVE PathsIn(_, _)
PathsIn(block, prefix) ==
  UNION {IF block[i].kind \in Constructs \cup IfParts
         THEN PathsIn(block[i].block, Append(prefix, i))
         ELSE {Append(prefix, i)} : i \in 1..Len(block)}

\* the statements of a kind, with or without a construct name
StatementsOf(body, kind, named) ==
  {q \in PathsIn(body, <<>>) :
     NodeAt(body, q).kind = kind /\ (NodeAt(body, q).name # "") = named}

\* the paths of the DO constructs around the statement at q, and the
\* innermost of them (<<>> if there is none)
EnclosingDos(body, q) ==
  {p \in {SubSeq(q, 1, n) : n \in 1..(Len(q) - 1)} :
     NodeAt(body, p).kind = "DoConstruct"}
InnermostDo(body, q) ==
  IF EnclosingDos(body, q) = {} THEN <<>>
  ELSE CHOOSE p \in EnclosingDos(body, q) :
         \A r \in EnclosingDos(body, q) : Len(r) <= Len(p)

BeginOf(ops, p) ==
  CHOOSE i \in 1..Len(ops) : ops[i].op = "BeginConstruct" /\ ops[i].at = p

\* the label after the EndConstruct of the construct at p, and the label
\* before the DoIncrement of the DO construct at p
ExitLabelOf(ops, p) == ops[EndOf(ops, p) + 1].target
IncrementLabelOf(ops, p) == ops[BeginOf(ops, p) + 2].target

\* the walk emitted a Goto to the label for the statement at q
GotoEmitted(ad, q, label) ==
  /\ ad.died = ""
  /\ \E k \in 1..Len(ad.ops) : ad.ops[k].op = "Goto" /\ ad.ops[k].at = q
  /\ \A k \in 1..Len(ad.ops) :
       (ad.ops[k].op = "Goto" /\ ad.ops[k].at = q) => ad.ops[k].target = label

\* the walk is over and the operations and the name stack trace are those
\* it left
Walked == phase \in {"ConstructFIR", "dead"}

\* C15: an EXIT without a construct name inside a DO construct emits a Goto
\* to the exit label of the innermost enclosing DO construct, the label after
\* the EndConstruct of that construct.
C15_UnnamedExit ==
  Walked =>
    \A q \in StatementsOf(program, "ExitStmt", FALSE) :
      InnermostDo(program, q) # <<>> =>
        /\ analysis.died = ""
        /\ GotoEmitted(analysis, q, ExitLabelOf(analysis.ops, InnermostDo(program, q)))

\* C16: a CYCLE without a construct name inside a DO construct emits a Goto
\* to the increment label of the innermost enclosing DO construct, whatever
\* IF and BLOCK constructs are between the statement and that DO.
C16_UnnamedCycle ==
  Walked =>
    \A q \in StatementsOf(program, "CycleStmt", FALSE) :
      InnermostDo(program, q) # <<>> =>
        /\ analysis.died = ""
        /\ GotoEmitted(analysis, q,
                       IncrementLabelOf(analysis.ops, InnermostDo(program, q)))

\* a CYCLE without a name in an IF or BLOCK construct that is in a DO
\* construct, the walk over
C16_Witness ==
  /\ phase = "ConstructFIR"
  /\ \E q \in StatementsOf(program, "CycleStmt", FALSE) :
       /\ InnermostDo(program, q) # <<>>
       /\ Len(InnermostDo(program, q)) < Len(q) - 1
       /\ \E k \in 1..Len(analysis.ops) : analysis.ops[k].at = q

\* the path of the construct around the statement at q that carries the
\* construct name of the statement, <<>> if there is none
NamedConstruct(body, q) ==
  LET around == {p \in {SubSeq(q, 1, n) : n \in 1..(Len(q) - 1)} :
                   NodeAt(body, p).name = NodeAt(body, q).name}
  IN IF around = {} THEN <<>> ELSE CHOOSE p \in around : TRUE

\* C17: a CYCLE or EXIT with a construct name N inside a construct named N
\* emits a Goto to the increment label (CYCLE) or to the exit label (EXIT) of
\* that construct, innermost or not, and the walk does not end in "construct
\* name not on stack".
C17_NamedCycleExit ==
  Walked =>
    /\ \A q \in StatementsOf(program, "CycleStmt", TRUE) :
         (NamedConstruct(program, q) # <<>> /\
          NodeAt(program, NamedConstruct(program, q)).kind = "DoConstruct") =>
           /\ analysis.died # "construct name not on stack"
           /\ GotoEmitted(analysis, q,
                          IncrementLabelOf(analysis.ops, NamedConstruct(program, q)))
    /\ \A q \in StatementsOf(program, "ExitStmt", TRUE) :
         NamedConstruct(program, q) # <<>> =>
           /\ analysis.died # "construct name not on stack"
           /\ GotoEmitted(analysis, q,
                          ExitLabelOf(analysis.ops, NamedConstruct(program, q)))

\* the statements the linearizer is to handle itself
ControlStatements ==
  {"ContinueStmt", "CycleStmt", "ExitStmt", "GotoStmt", "IfStmt", "ReturnStmt",
   "ComputedGotoStmt", "ArithmeticIfStmt", "AssignedGotoStmt"}

\* C18: no Action operation of the linearizer carries a CONTINUE, CYCLE,
\* EXIT, GOTO, IF statement, RETURN, computed GOTO, arithmetic IF or assigned
\* GOTO (the Action of an IF statement carries the statement inside it), and
\* the lowering never ends in WRONG_PATH in handleActionStatement.
C18_NoControlStatementInAction ==
  /\ Walked =>
       \A k \in 1..Len(analysis.ops) :
         analysis.ops[k].op = "Action" => analysis.ops[k].u \notin ControlStatements
  /\ builder.died # "control should not reach here"

\* the source labels of the ERR=, EOR= and END= specifiers of an I/O statement
Specified(stmt) == {stmt.labels[i] : i \in 1..Len(stmt.labels)} \ {0}

IOStatements(body) ==
  {q \in PathsIn(body, <<>>) : NodeAt(body, q).kind \in {"ReadStmt", "OpenStmt"}}

\* the blocks of the successors of the last statement of a block
LastSuccessors(block) ==
  LET last == block.stmts[Len(block.stmts)]
  IN {last.succ[i] : i \in 1..Len(last.succ)}

\* the block of a source label
BlockOfLabel(ad, b, label) == Lookup(b.blockMap, Lookup(ad.labelMap, label))

\* C19: an I/O statement with ERR=, EOR= or END= ends its block in a
\* terminator whose successors are the block of the fresh fall-through label
\* and the block of each label of a specifier; an I/O statement with none of
\* them is a plain Action.
C19_IOBranchEdges ==
  phase = "Cleanup" =>
    \A q \in IOStatements(program) :
      IF Specified(NodeAt(program, q)) = {}
      THEN \A k \in 1..Len(analysis.ops) :
             analysis.ops[k].at = q => analysis.ops[k].op = "Action"
      ELSE \E k \in 1..Len(analysis.ops) :
             /\ analysis.ops[k].op = "SwitchingIO" /\ analysis.ops[k].at = q
             /\ Has(builder.blockMap, analysis.ops[k].target)
             /\ \A l \in Specified(NodeAt(program, q)) :
                  /\ Has(analysis.labelMap, l)
                  /\ Has(builder.blockMap, Lookup(analysis.labelMap, l))
             /\ \E bb \in 1..Len(builder.blocks) :
                  /\ TerminatorsIn(builder.blocks[bb]) = {Len(builder.blocks[bb].stmts)}
                  /\ LastSuccessors(builder.blocks[bb]) =
                       {Lookup(builder.blockMap, analysis.ops[k].target)} \cup
                       {BlockOfLabel(analysis, builder, l) :
                          l \in Specified(NodeAt(program, q))}

\* the assigned GOTO statements without a list of labels
AssignedGotos(body) ==
  {q \in PathsIn(body, <<>>) :
     NodeAt(body, q).kind = "AssignedGotoStmt" /\ NodeAt(body, q).labels = <<>>}

\* the source labels the ASSIGN statements of the body assign to a variable
AssignedTo(body, symbol) ==
  {NodeAt(body, q).labels[1] :
     q \in {r \in PathsIn(body, <<>>) :
              NodeAt(body, r).kind = "AssignStmt" /\ NodeAt(body, r).symbol = symbol}}

\* C20: with ASSIGN l1 TO v, ..., ASSIGN lk TO v and GOTO v in a procedure,
\* the lowering ends, and the block of the GOTO ends in an indirect branch
\* whose successors are exactly the blocks of the source labels l1..lk.
C20_AssignedGotoTargets ==
  \A q \in AssignedGotos(program) :
    AssignedTo(program, NodeAt(program, q).symbol) # {} =>
      /\ builder.died # "undefined"
      /\ phase = "Cleanup" =>
           /\ \A l \in AssignedTo(program, NodeAt(program, q).symbol) :
                /\ Has(analysis.labelMap, l)
                /\ Has(builder.blockMap, Lookup(analysis.labelMap, l))
           /\ \E bb \in 1..Len(builder.blocks) :
                /\ builder.blocks[bb].stmts # <<>>
                /\ builder.blocks[bb].stmts[Len(builder.blocks[bb].stmts)].insn =
                     "IndirectBranch"
                /\ LastSuccessors(builder.blocks[bb]) =
                     {BlockOfLabel(analysis, builder, l) :
                        l \in AssignedTo(program, NodeAt(program, q).symbol)}

\* the assigned GOTO statements with a list of labels
ListedGotos(body) ==
  {q \in PathsIn(body, <<>>) :
     NodeAt(body, q).kind = "AssignedGotoStmt" /\ NodeAt(body, q).labels # <<>>}

\* the blocks that end in an indirect branch
IndirectBranches(b) ==
  {bb \in 1..Len(b.blocks) :
     /\ b.blocks[bb].stmts # <<>>
     /\ b.blocks[bb].stmts[Len(b.blocks[bb].stmts)].insn = "IndirectBranch"}

\* C21: an assigned GOTO with a list of labels ends its block in an indirect
\* branch on its variable whose successors are exactly the blocks of the
\* listed labels, not those of the ASSIGN statements, whether the labels are
\* defined before or after the GOTO.
C21_ListedGotoTargets ==
  phase = "Cleanup" =>
    \A q \in ListedGotos(program) :
      LET stmt == NodeAt(program, q)
          listed == {stmt.labels[i] : i \in 1..Len(stmt.labels)}
      IN /\ \A l \in listed :
              /\ Has(analysis.labelMap, l)
              /\ Has(builder.blockMap, Lookup(analysis.labelMap, l))
         /\ \E bb \in IndirectBranches(builder) :
              LET last == builder.blocks[bb].stmts[Len(builder.blocks[bb].stmts)]
              IN /\ last.operand = stmt.symbol
                 /\ LastSuccessors(builder.blocks[bb]) =
                      {BlockOfLabel(analysis, builder, l) : l \in listed}

\* the statements that become a LinearSwitch
MultiwayStatements(body) ==
  {q \in PathsIn(body, <<>>) :
     \/ NodeAt(body, q).kind \in {"ComputedGotoStmt", "ArithmeticIfStmt"}
     \/ NodeAt(body, q).kind = "CallStmt" /\ NodeAt(body, q).labels # <<>>}

\* the blocks that end in a switch
Switches(b) ==
  {bb \in 1..Len(b.blocks) :
     /\ b.blocks[bb].stmts # <<>>
     /\ b.blocks[bb].stmts[Len(b.blocks[bb].stmts)].insn = "Switch"}

\* C22: a computed GOTO and a CALL with alternate returns end their block in
\* a switch with one case per listed label, in order, and the block of the
\* fresh fall-through label as default; an arithmetic IF ends its block in a
\* switch whose successors are the blocks of its three labels; the lowering
\* of none of them ends in a contract violation or in undefined behaviour.
C22_MultiwayBranches ==
  \A q \in MultiwayStatements(program) :
    /\ builder.died \notin {"undefined", "CHECK(values.size() == labels.size())"}
    /\ phase = "Cleanup" =>
         LET stmt == NodeAt(program, q)
             blocks == [i \in 1..Len(stmt.labels) |->
                          BlockOfLabel(analysis, builder, stmt.labels[i])]
         IN \E k \in 1..Len(analysis.ops) :
              /\ analysis.ops[k].op = "Switch" /\ analysis.ops[k].at = q
              /\ \E bb \in Switches(builder) :
                   LET succ == builder.blocks[bb].stmts[Len(builder.blocks[bb].stmts)].succ
                   IN IF stmt.kind = "ArithmeticIfStmt"
                      THEN {succ[i] : i \in 1..Len(succ)} =
                             {blocks[i] : i \in 1..Len(blocks)}
                      ELSE succ = <<Lookup(builder.blockMap,
                                           analysis.ops[k].refs[Len(analysis.ops[k].refs)])>>
                                    \o blocks

(***************************************************************************)
(* The claims about the constructs, on SpecConstructs and SpecLower.       *)
(***************************************************************************)
\* the positions of the BeginConstruct operations of the constructs that
\* enter a region
RegionConstructs ==
  {"BlockConstruct", "AssociateConstruct", "ChangeTeamConstruct", "DoConstruct",
   "SelectRankConstruct", "SelectTypeConstruct"}
RegionBegins(ops) ==
  {i \in 1..Len(ops) : ops[i].op = "BeginConstruct" /\ ops[i].u \in RegionConstructs}

\* the current region before the operation at i
RegionBefore(b, i) == IF i = 1 THEN 1 ELSE b.regionAt[i - 1]

\* C23: when ConstructFIR has returned, the BeginConstruct of each BLOCK,
\* ASSOCIATE, CHANGE TEAM, DO, SELECT RANK and SELECT TYPE construct made a
\* new child region of the region before it current, the matching
\* EndConstruct made the region before the BeginConstruct current again, and
\* the current region after the last operation is the outermost region.
C23_RegionsBalanced ==
  phase = "DrawRemainingArcs" =>
    /\ \A i \in RegionBegins(analysis.ops) :
         LET j == EndOf(analysis.ops, analysis.ops[i].at)
             before == RegionBefore(builder, i)
         IN /\ builder.regions[builder.regionAt[i]] = before
            /\ \A k \in 1..(i - 1) : builder.regionAt[k] # builder.regionAt[i]
            /\ j > i
            /\ builder.regionAt[j] = before
    /\ builder.cursorRegion = 1

\* the positions of the BeginConstruct operations of the DO constructs
\* whose DO statement has no loop bounds: DO WHILE, DO CONCURRENT and DO
\* without loop control
NonCountedDos(body, ops) ==
  {i \in DoBegins(ops) : NodeAt(body, ops[i].at).symbol # LoopBounds}

\* C24: ConstructFIR passes the operations of a DO WHILE, a DO CONCURRENT
\* and a DO without loop control without a failed CHECK, and in the lowered
\* procedure the latch block of such a loop, the block of its backedge label,
\* ends with the evaluation of an expression and the conditional branch on it.
C24_NonCountedLoops ==
  NonCountedDos(program, analysis.ops) # {} =>
    /\ builder.died # "CHECK(false && \"DO context not present\")"
    /\ phase = "Cleanup" =>
         \A i \in NonCountedDos(program, analysis.ops) :
           LET latch == builder.blocks[Lookup(builder.blockMap, analysis.ops[i + 1].target)].stmts
           IN /\ Len(latch) >= 2
              /\ latch[Len(latch)].insn = "ConditionalBranch"
              /\ latch[Len(latch) - 1].insn = "ApplyExpr"

\* the positions of the conditions of the IF construct at path p: its IF
\* THEN statement and its ELSE IF statements
ConditionsOf(ops, p) ==
  {k \in 1..Len(ops) :
     /\ ops[k].op = "CondGoto"
     /\ \/ ops[k].u = "IfThenStmt" /\ ops[k].at = p
        \/ /\ ops[k].u = "ElseIfStmt"
           /\ Len(ops[k].at) = Len(p) + 1 /\ IsPrefix(p, ops[k].at)}

\* the operations of the IF construct from the BeginConstruct at i on follow
\* the scheme of an IF construct
IfSchemaAt(ops, i) ==
  LET p == ops[i].at
      j == EndOf(ops, p)
      conds == ConditionsOf(ops, p)
      exit == ops[j - 1].target
  IN /\ j > i + 5
     /\ i + 1 \in conds
     /\ ops[j - 1] = LinearLabel(exit)
     /\ ops[j - 2] = LinearGoto("LinearArtificial", <<>>, exit)
     /\ \A k \in conds :
          LET later == {c \in conds : c > k}
              places == LabelPositions(ops, ops[k].falseLabel)
          IN /\ i < k /\ k < j
             /\ ops[k + 1] = LinearLabel(ops[k].target)
             /\ Cardinality(places) = 1
             /\ \A m \in places :
                  /\ k < m /\ m < j - 1
                  /\ ops[m - 1] = LinearGoto("LinearArtificial", <<>>, exit)
                  /\ IF later = {} THEN \A c \in conds : c < m
                     ELSE \E c \in later : c = m + 1 /\ \A d \in later : c <= d

\* the blocks that end the branches of the IF construct whose BeginConstruct
\* is at i branch to the block of its exit label and are its predecessors,
\* one block for each condition and one for the ELSE branch
IfJoinAt(b, ops, i) ==
  LET p == ops[i].at
      conds == ConditionsOf(ops, p)
      join == Lookup(b.blockMap, ops[EndOf(ops, p) - 1].target)
      preds == PredsOf(b.blocks, join)
  IN /\ Cardinality(preds) = Cardinality(conds) + 1
     /\ \A bb \in preds :
          /\ b.blocks[bb].stmts[Len(b.blocks[bb].stmts)].insn = "Branch"
          /\ LastSuccessors(b.blocks[bb]) = {join}
     /\ \A k \in conds :
          ops[k + 2].op = "Action" /\ ops[k + 3].op = "Goto" =>
            Lookup(b.blockMap, ops[k].target) \in preds

IfBegins(ops) ==
  {i \in 1..Len(ops) : ops[i].op = "BeginConstruct" /\ ops[i].u = "IfConstruct"}

\* C25: the operations of every IF construct follow the scheme: the false
\* target of each condition is the label placed immediately before the next
\* ELSE IF condition, that of the last condition is placed after every
\* condition, before the ELSE body or the end of the construct; every branch
\* is followed by a Goto to the one exit label, which precedes the
\* EndConstruct; and in the lowered procedure the blocks that end the
\* branches branch to the block of the exit label.
C25_IfSchema ==
  /\ Walked /\ analysis.died = "" =>
       \A i \in IfBegins(analysis.ops) : IfSchemaAt(analysis.ops, i)
  /\ phase = "Cleanup" =>
       \A i \in IfBegins(analysis.ops) : IfJoinAt(builder, analysis.ops, i)

\* the lowered procedure of an IF construct with two ELSE IF blocks and an
\* ELSE block
C25_Witness ==
  /\ phase = "Cleanup"
  /\ program[2].kind = "IfConstruct"
  /\ Cardinality(ConditionsOf(analysis.ops, <<2>>)) = 3
  /\ \E n \in 1..Len(program[2].block) : program[2].block[n].kind = "ElseBlock"

SimpleConstructs ==
  {"BlockConstruct", "AssociateConstruct", "ChangeTeamConstruct", "CriticalConstruct",
   "WhereConstruct", "ForallConstruct"}

\* the operations from the BeginConstruct at i on are BeginConstruct, the
\* operations of the body, the label of the end, EndConstruct, and the label
\* is the exit label on the name stack at every statement of the body
SimpleSchemaAt(ad, i) ==
  LET ops == ad.ops
      p == ops[i].at
      j == EndOf(ops, p)
  IN /\ j > i + 1
     /\ ops[j - 1].op = "Label"
     /\ \A k \in 1..Len(ops) :
          ops[k].at # <<>> => (IsPrefix(p, ops[k].at) <=> i <= k /\ k <= j)
     /\ \A t \in 1..Len(ad.trace) :
          IsPrefix(p, ad.trace[t][1]) =>
            /\ Len(ad.trace[t][2]) >= Len(p)
            /\ ad.trace[t][2][Len(p)][2] = ops[j - 1].target

\* C26: for each BLOCK, ASSOCIATE, CHANGE TEAM, CRITICAL, WHERE and FORALL
\* construct the walk emits BeginConstruct, the operations of the body, the
\* label of the end and EndConstruct, in this order, and that label is the
\* exit label recorded on the name stack while the body is walked.
C26_SimpleSchema ==
  Walked /\ analysis.died = "" =>
    \A i \in 1..Len(analysis.ops) :
      analysis.ops[i].op = "BeginConstruct" /\ analysis.ops[i].u \in SimpleConstructs =>
        SimpleSchemaAt(analysis, i)

\* the positions of the operations that point to the statement at q
OpsOf(ops, q) == {k \in 1..Len(ops) : ops[k].at = q}

\* the stop and fail image runtime calls of a procedure, as <<block, index>>
RuntimeCalls(b) ==
  UNION {{<<bb, k>> : k \in {n \in 1..Len(b.blocks[bb].stmts) :
                                b.blocks[bb].stmts[n].insn = "Runtime"}} :
           bb \in 1..Len(b.blocks)}

\* C27: a STOP, FAIL IMAGE or RETURN statement gives one operation, a Return,
\* and no Action; in the lowered procedure every stop or fail image runtime
\* call is followed by the terminator of its block, and there is one call for
\* each STOP and FAIL IMAGE statement.
C27_OneReturn ==
  /\ Walked /\ analysis.died = "" =>
       \A q \in PathsIn(program, <<>>) :
         NodeAt(program, q).kind \in {"StopStmt", "FailImageStmt", "ReturnStmt"} =>
           /\ Cardinality(OpsOf(analysis.ops, q)) = 1
           /\ \A k \in OpsOf(analysis.ops, q) : analysis.ops[k].op = "Return"
  /\ phase = "Cleanup" =>
       /\ \A c \in RuntimeCalls(builder) :
            /\ c[2] + 1 = Len(builder.blocks[c[1]].stmts)
            /\ builder.blocks[c[1]].stmts[c[2] + 1].insn = "Unreachable"
       /\ Cardinality(RuntimeCalls(builder)) =
            Cardinality({q \in PathsIn(program, <<>>) :
                           NodeAt(program, q).kind \in {"StopStmt", "FailImageStmt"}})

\* the positions of the Action operations of the ASSIGN statements
AssignActions(ops) ==
  {k \in 1..Len(ops) : ops[k].op = "Action" /\ ops[k].u = "AssignStmt"}

\* the values of the Store statements of a procedure
StoredValues(b) ==
  UNION {{b.blocks[bb].stmts[n].operand :
            n \in {m \in 1..Len(b.blocks[bb].stmts) : b.blocks[bb].stmts[m].insn = "Store"}} :
           bb \in 1..Len(b.blocks)}

\* C28: ConstructFIR does not end in undefined behaviour at the operation of
\* an ASSIGN statement, whether the statement of the label comes before or
\* after it, and when ConstructFIR has returned the procedure holds a Store
\* of the block that the label of each ASSIGN statement is bound to.
C28_AssignStoresBlock ==
  \A k \in AssignActions(analysis.ops) :
    /\ ~(builder.died = "undefined" /\ Len(builder.regionAt) = k - 1)
    /\ phase \in {"DrawRemainingArcs", "Cleanup"} =>
         ToString(BlockOfLabel(analysis, builder,
                               NodeAt(program, analysis.ops[k].at).labels[1]))
           \in StoredValues(builder)

(***************************************************************************)
(* SpecLabels: the label requests of one procedure on its AnalysisData, in *)
(* any order: FetchLabel and findLabel of a source label, BuildNewLabel.   *)
(* trace holds the last request and the label it returned.                 *)
(***************************************************************************)
MaxLabels == 33

SourceLabels == {10, 20}

LabelsInit ==
  /\ program = <<>>
  /\ analysis = NewAnalysisData
  /\ builder = NewBuilder
  /\ phase = "Walk"
  /\ SumIdle /\ fs = NoFiles /\ FileIdle /\ ColIdle /\ ModIdle

\* the analysis data after a request that returned got
Requested(request, label, got) ==
  /\ analysis.died = ""
  /\ analysis.counter < MaxLabels
  /\ analysis' \in getNextOutcomes([got.ad EXCEPT !.trace = <<<<request, label, got.ref>>>>])
  /\ UNCHANGED <<program, builder, phase, sumVars, fs, fileVars, colVars, modVars>>

Fetch_Label == \E label \in SourceLabels :
  Requested("FetchLabel", label, FetchLabel(analysis, label))

Find_Label == \E label \in SourceLabels :
  Requested("findLabel", label, findLabel(analysis, label))

Build_New_Label == Requested("BuildNewLabel", 0, BuildNewLabel(analysis))

LabelsNext == Fetch_Label \/ Find_Label \/ Build_New_Label

SpecLabels == LabelsInit /\ [][LabelsNext]_vars

\* the labels of the interned source labels
Interned(ad) == {p[2] : p \in ad.labelMap}

\* after a request: the request did not end in undefined behaviour, the map
\* of the source labels is one to one, every label given out is below the
\* counter, the label of a source label is its entry in the map, and a fresh
\* label is the one the counter had, which no source label has
LabelsDistinct(ad) ==
  /\ ad.died # "undefined"
  /\ \A p, q \in ad.labelMap : p[1] = q[1] <=> p[2] = q[2]
  /\ \A ref \in Interned(ad) : ref < ad.counter
  /\ \A t \in 1..Len(ad.trace) :
       IF ad.trace[t][1] = "BuildNewLabel"
       THEN ad.trace[t][3] = ad.counter - 1 /\ ad.trace[t][3] \notin Interned(ad)
       ELSE <<ad.trace[t][2], ad.trace[t][3]>> \in ad.labelMap

\* C29: over any sequence of label requests of one procedure, a source label
\* always yields the same label, two source labels yield different labels,
\* and a fresh label differs from the label of every source label and from
\* every earlier fresh label: the entries of the map stay, and the counter
\* every fresh label comes from only grows.
C29_LabelInterning ==
  /\ [](LabelsDistinct(analysis))
  /\ [][/\ analysis.labelMap \subseteq analysis'.labelMap
        /\ analysis'.counter >= analysis.counter]_vars

(***************************************************************************)
(* SpecRewrite: RewriteParseTree on the parse tree of one subprogram after  *)
(* name resolution.  program is [spec, exec, end]: the statements of the    *)
(* specification part, those of the execution part and the END statement;   *)
(* a statement is [kind, names] and a parser::Name [source, symbol], the    *)
(* symbol being "" for nullptr, else the details of the symbol.  msgs are   *)
(* the messages of the context.                                            *)
(***************************************************************************)
MaxSpecStmts == 2

Name(source, symbol) == [source |-> source, symbol |-> symbol]
Stmt(kind, names) == [kind |-> kind, names |-> names]

\* the nodes whose Pre returns false: their names are not visited
Unvisited ==
  {"EquivalenceStmt", "Keyword", "EntryStmt", "CompilerDirective", "EndBlockDataStmt",
   "EndFunctionStmt", "EndModuleStmt", "EndMpSubprogramStmt", "EndProgramStmt",
   "EndSubmoduleStmt", "EndSubroutineStmt", "EndTypeStmt"}

\* RewriteMutator::Post(parser::Name &); errorOnUnresolvedName_ is true
PostName(messages, name) ==
  IF name.symbol = ""
  THEN Append(messages, Message("Internal: no symbol found for", name.source, <<>>, <<>>))
  ELSE messages

\* parser::Walk over the names of a statement and over a list of statements:
\* the children of a node are visited when Pre returns true, in their order
RECURSIVE WalkNames(_, _, _)
WalkNames(messages, names, i) ==
  IF i > Len(names) THEN messages
  ELSE WalkNames(PostName(messages, names[i]), names, i + 1)

RECURSIVE WalkStmts(_, _, _)
WalkStmts(messages, stmts, i) ==
  IF i > Len(stmts) THEN messages
  ELSE WalkStmts(IF stmts[i].kind \in Unvisited THEN messages
                 ELSE WalkNames(messages, stmts[i].names, 1),
                 stmts, i + 1)

\* RewriteMutator::Post(parser::SpecificationPart &): the statement function
\* statements whose name is an object go to stmtFuncsToConvert_
ToConvert(stmt) ==
  stmt.kind = "StmtFunctionStmt" /\ stmt.names[1].symbol = "ObjectEntityDetails"
PostSpecificationPart(spec) ==
  [spec |-> SelectSeq(spec, LAMBDA s : ~ToConvert(s)),
   stmtFuncsToConvert |-> SelectSeq(spec, ToConvert)]

\* parser::StmtFunctionStmt::ConvertToAssignment
ConvertToAssignment(stmt) == [stmt EXCEPT !.kind = "AssignmentStmt"]

\* RewriteMutator::Pre(parser::ExecutionPart &)
PreExecutionPart(exec, stmtFuncsToConvert) ==
  [i \in 1..Len(stmtFuncsToConvert) |-> ConvertToAssignment(stmtFuncsToConvert[i])]
    \o exec

\* SemanticsContext::AnyFatalError; every message of this model is an error
AnyFatalError(messages) == messages # <<>>

\* RewriteParseTree: [program, messages, result]
RewriteParseTree(messages, tree) ==
  LET inSpec == WalkStmts(messages, tree.spec, 1)
      posted == PostSpecificationPart(tree.spec)
      exec == PreExecutionPart(tree.exec, posted.stmtFuncsToConvert)
      inExec == WalkStmts(inSpec, exec, 1)
      walked == WalkStmts(inExec, <<tree.end>>, 1)
  IN [program |-> [spec |-> posted.spec, exec |-> exec, end |-> tree.end],
      messages |-> walked,
      result |-> ~AnyFatalError(walked)]

\* a name with or without a symbol
EitherName(source) == {Name(source, ""), Name(source, "ObjectEntityDetails")}

\* the statements of a specification part; a statement function statement
\* that name resolution found to name an object has all its names resolved
SpecStmts ==
  {Stmt(k, <<n>>) : k \in {"TypeDeclarationStmt", "EquivalenceStmt", "EntryStmt"},
                    n \in EitherName("x")}
  \cup {Stmt("StmtFunctionStmt",
             <<Name("a", "ObjectEntityDetails"), Name("i", "ObjectEntityDetails")>>)}
  \cup {Stmt("StmtFunctionStmt", <<Name("f", "SubprogramDetails"), n>>) :
          n \in EitherName("y")}

ExecStmts == {Stmt("AssignmentStmt", <<n>>) : n \in EitherName("z")}

SpecParts == UNION {[1..n -> SpecStmts] : n \in 0..MaxSpecStmts}

RewritePrograms ==
  [spec : SpecParts, exec : {<<>>} \cup {<<s>> : s \in ExecStmts},
   end : {Stmt("EndSubroutineStmt", <<n>>) : n \in EitherName("s")}]

RewriteInit ==
  /\ program \in RewritePrograms
  /\ phase = "RewriteParseTree"
  /\ analysis = <<>>
  /\ builder = <<>>
  /\ SumIdle /\ fs = NoFiles /\ FileIdle /\ ColIdle /\ ModIdle

\* the call of RewriteParseTree; phase becomes the value it returned
Rewrite_Parse_Tree ==
  /\ phase = "RewriteParseTree"
  /\ LET rewritten == RewriteParseTree(msgs, program)
     IN /\ program' = rewritten.program
        /\ msgs' = rewritten.messages
        /\ phase' = IF rewritten.result THEN "true" ELSE "false"
  /\ UNCHANGED <<analysis, builder, sumVars, fs, fileVars, colVars, scopes, order,
                 moduleDirectory, waLast, rdLast, crashed>>

RewriteNext == Rewrite_Parse_Tree

SpecRewrite == RewriteInit /\ [][RewriteNext]_vars

\* the names of the tree that have no symbol, as <<part, statement, name>>
UnresolvedIn(part, stmts) ==
  UNION {{<<part, i, j>> : j \in {n \in 1..Len(stmts[i].names) :
                                    stmts[i].names[n].symbol = ""}} :
           i \in 1..Len(stmts)}
Unresolved(tree) ==
  UnresolvedIn("spec", tree.spec) \cup UnresolvedIn("exec", tree.exec)
    \cup UnresolvedIn("end", <<tree.end>>)

StmtAt(tree, pos) ==
  (CASE pos[1] = "spec" -> tree.spec [] pos[1] = "exec" -> tree.exec
     [] pos[1] = "end" -> <<tree.end>>)[pos[2]]
NameAt(tree, pos) == StmtAt(tree, pos).names[pos[3]]

\* C30: when RewriteParseTree has returned, the messages hold one diagnostic
\* for each name of the tree without a symbol, naming it, and if there is
\* such a name the function has returned false.
C30_UnresolvedNames ==
  phase \in {"true", "false"} =>
    /\ \A source \in {"x", "y", "z", "s"} :
         Cardinality({i \in 1..Len(msgs) : msgs[i].name = source}) =
           Cardinality({pos \in Unresolved(program) :
                          NameAt(program, pos).source = source})
    /\ Unresolved(program) # {} => phase = "false"

\* the operations that emit a terminator
BranchOps == {"Goto", "CondGoto", "IndirectGoto", "Return", "Switch", "SwitchingIO"}

\* C31: in ConstructFIR the insertion block is null after every operation
\* that emits a terminator, and no statement is inserted while the insertion
\* block is null: the CHECK of FIRBuilder::Insert never fails.
C31_CursorDiscipline ==
  /\ builder.died # "CHECK(GetInsertionPoint())"
  /\ phase # "done" =>
       \A k \in 1..Len(builder.cursorAt) :
         analysis.ops[k].op \in BranchOps => builder.cursorAt[k] = 0

\* the labels the branch operations of the list name as a target
BranchTargets(ops) ==
  UNION {IF ops[k].op \in {"Goto", "CondGoto", "Switch", "IndirectGoto", "SwitchingIO"}
         THEN ({ops[k].target, ops[k].falseLabel}
                 \cup {ops[k].refs[r] : r \in 1..Len(ops[k].refs)}) \ {unspecifiedLabel}
         ELSE {} : k \in 1..Len(ops)}

\* the labels that stand for no label of the source
FreshLabels(ad) == (0..(ad.counter - 1)) \ {p[2] : p \in ad.labelMap}

\* C32: when a procedure has been linearized, every fresh internal label whose
\* referenced flag is set is the target of a Goto, CondGoto, Switch,
\* IndirectGoto or SwitchingIO operation of the list; the end label of a
\* construct that nothing branches to is not flagged.
C32_ReferencedBit ==
  Walked /\ analysis.died = "" =>
    (analysis.referenced \cap FreshLabels(analysis)) \subseteq BranchTargets(analysis.ops)

\* the operations that are a BeginConstruct with a Label right after it and
\* that ConstructFIR has passed
LabelledBegins ==
  {k \in 1..(Len(builder.cursorAt) - 1) :
     analysis.ops[k].op = "BeginConstruct" /\ analysis.ops[k + 1].op = "Label"}

\* C33: a Label right after a BeginConstruct is bound in blockMap to a block
\* that exists, the insertion block BeginConstruct left, and passing the
\* Label changes neither the insertion block nor the region, for the
\* constructs that open a region and for those that do not.
C33_LabelAfterBegin ==
  phase # "done" =>
    \A k \in LabelledBegins :
      /\ Lookup(builder.blockMap, analysis.ops[k + 1].target) \in 1..Len(builder.blocks)
      /\ Lookup(builder.blockMap, analysis.ops[k + 1].target) = builder.cursorAt[k]
      /\ builder.cursorAt[k + 1] = builder.cursorAt[k]
      /\ builder.regionAt[k + 1] = builder.regionAt[k]

\* the tree of the file Read verified for the requested name
RequestedTree(rd) == Parse(fs[VerifiedPath(rd)].data)

\* the file of the parent fails on its own: none is found, or the one found
\* has a wrong checksum or does not parse
Unreadable(name, ancestor) ==
  LET path == FindModFile(fs, name, ancestor).path
  IN \/ path = NoPath
     \/ ~VerifyHeader(fs, path)
     \/ ~Parse(fs[path].data).ok

\* the call read the file of a submodule that names a parent submodule which
\* is not under the ancestor in sc and whose own file is unreadable
ParentUnreadable(rd, sc) ==
  /\ Searched(rd)
  /\ rd.ancestor # Global
  /\ VerifiedPath(rd) # NoPath
  /\ VerifyHeader(fs, VerifiedPath(rd))
  /\ RequestedTree(rd).ok
  /\ RequestedTree(rd).isSubmodule
  /\ RequestedTree(rd).parent # <<>>
  /\ ~FindSubmodule(sc, rd.ancestor, RequestedTree(rd).parent)
  /\ Unreadable(RequestedTree(rd).parent, rd.ancestor)

\* C34: when the file of submodule S names a parent submodule P and the Read
\* of P returns nullptr because the file of P is absent, has a wrong checksum
\* or is corrupt, the Read of S returns nullptr in a defined way, without
\* aborting and without going through the missing parent scope.
C34_ParentFailureNotFatal ==
  [][ParentUnreadable(rdLast', scopes)
       => /\ rdLast'.result = Null
          /\ rdLast'.status = "ok"
          /\ ~crashed']_vars

\* the operations ConstructFIR has passed that insert statements and leave
\* the insertion block set
InsertingOps ==
  {k \in 1..Len(builder.cursorAt) :
     analysis.ops[k].op \in {"Action", "DoIncrement", "DoCompare"}}

\* C35: a statement is inserted into a block of the builder's current region:
\* after every operation that inserts statements the insertion block is a
\* block of the current region, so the statements after the EndConstruct of a
\* construct that opened a region are in a block of the enclosing region.
C35_InsertIntoCurrentRegion ==
  phase # "done" =>
    \A k \in InsertingOps :
      /\ builder.cursorAt[k] # 0
      /\ builder.blocks[builder.cursorAt[k]].region = builder.regionAt[k]

\* the labels getNext has given out: each was used as an index of referenced
AllocatedLabels(ad) == 0..(ad.counter - 1)

\* C36: every index getNext writes in referenced, and every index
\* setReferenced or isReferenced uses for a label that was given out, is
\* below the size of the vector, however many labels one procedure asks for.
C36_ReferencedInBounds ==
  \A label \in AllocatedLabels(analysis) \cup analysis.referenced : label < referencedSize

(***************************************************************************)
(* SpecReadSteps: Read one activation at a time.  While a call is running  *)
(* rdLast.pending is the chain of its activations, the requested name      *)
(* first: an activation either reaches the recursive call for the parent   *)
(* submodule named in its file (ReadDescend), or goes to its end without   *)
(* one, and then the activations above it go to their ends as well         *)
(* (ReadReturn).  The scope tree is not changed before the recursive call  *)
(* (ResolveNames comes after it) and the files are not changed at all, so  *)
(* what an activation for a name finds is fixed when the call starts:      *)
(* ReadCall records it in rdLast.parents, and in rdLast.returns what the   *)
(* call hands back once an activation makes no recursive call.  A chain    *)
(* longer than the number of unit names holds a name twice; of a chain     *)
(* longer than MaxDepth, just above that number, rdLast.pending keeps the  *)
(* innermost MaxDepth activations.                                         *)
(***************************************************************************)
MaxDepth == 4

\* the parent submodule Read(name, ancestor) calls itself for in the scope
\* tree sc, <<>> when it returns without a recursive call
Descends(sc, name, ancestor) ==
  IF FindCached(sc, name, ancestor)
  THEN <<>>
  ELSE LET path == FindModFile(fs, name, ancestor).path
       IN IF path = NoPath \/ ancestor = Global THEN <<>>
          ELSE IF ~VerifyHeader(fs, path) THEN <<>>
          ELSE IF ~Parse(fs[path].data).ok \/ ~Parse(fs[path].data).isSubmodule
          THEN <<>>
          ELSE Parse(fs[path].data).parent

Running == rdLast.status = "running"

\* the name resolver calls Read(name, ancestor)
ReadCall ==
  /\ ~crashed
  /\ ~Running
  /\ \E name \in UnitNames,
        ancestor \in {Global} \cup {a \in DOMAIN scopes : ~scopes[a].isSubmodule} :
       LET start == [scopes |-> scopes, order |-> order, msgs |-> <<>>,
                     trace |-> <<>>, status |-> "ok"]
       IN rdLast' = [name |-> name, ancestor |-> ancestor, result |-> Null,
                     status |-> "running", trace |-> <<>>, pending |-> <<name>>,
                     parents |-> [n \in UnitNames |-> Descends(scopes, n, ancestor)],
                     returns |-> Read(start, fs, name, ancestor, {})]
  /\ msgs' = <<>>
  /\ waLast' = NoWriteAll
  /\ UNCHANGED <<sumVars, fs, fileVars, colVars, scopes, order, moduleDirectory,
                 crashed, firVars>>

\* the innermost activation calls Read for the parent its file names
ReadDescend ==
  /\ Running
  /\ rdLast.parents[rdLast.pending[Len(rdLast.pending)]] # <<>>
  /\ rdLast' = [rdLast EXCEPT !.pending =
                  Append(IF Len(@) < MaxDepth THEN @ ELSE Tail(@),
                         rdLast.parents[@[Len(@)]])]
  /\ UNCHANGED <<sumVars, fs, fileVars, colVars, scopes, order, moduleDirectory,
                 msgs, waLast, crashed, firVars>>

\* the innermost activation makes no recursive call: the call returns
ReadReturn ==
  /\ Running
  /\ rdLast.parents[rdLast.pending[Len(rdLast.pending)]] = <<>>
  /\ scopes' = rdLast.returns.rs.scopes
  /\ order' = rdLast.returns.rs.order
  /\ msgs' = rdLast.returns.rs.msgs
  /\ rdLast' = [name |-> rdLast.name, ancestor |-> rdLast.ancestor,
                result |-> rdLast.returns.result,
                status |-> rdLast.returns.rs.status,
                trace |-> rdLast.returns.rs.trace]
  /\ \/ crashed' = (rdLast.returns.rs.status = "aborted")
     \/ rdLast.returns.rs.status = "undefined" /\ crashed' = TRUE
  /\ UNCHANGED <<sumVars, fs, fileVars, colVars, moduleDirectory, waLast, firVars>>

ReadStepsNext == ReadCall \/ ReadDescend \/ ReadReturn

\* a call that is running goes on running
SpecReadSteps ==
  /\ ReadInit
  /\ [][ReadStepsNext]_vars
  /\ WF_vars(ReadDescend)
  /\ WF_vars(ReadReturn)

\* C37: every call of Read returns, whatever finite set of module files the
\* search directories hold, also when the parent identifiers of the files of
\* two submodules name each other.
C37_ReadTerminates == Running ~> ~Running

\* the paths of the constructs around the statement at path, outermost first
\* (a part of an IF construct is a node of the path and not a construct)
Enclosing(body, path) ==
  SelectSeq([d \in 1..(Len(path) - 1) |-> SubSeq(path, 1, d)],
            LAMBDA p : NodeAt(body, p).kind \in Constructs)

\* entry is what the handler of the construct at path p pushes: the name of
\* the construct, and a label to cycle to for a DO construct only
EntryOf(body, p, entry) ==
  /\ entry[1] = getName(NodeAt(body, p), p)
  /\ (entry[3] # unspecifiedLabel) <=> (NodeAt(body, p).kind = "DoConstruct")

\* C38: the name stack is balanced.  At every action statement the stack
\* holds one entry for each construct around the statement and no other,
\* the innermost construct on top, so a construct leaves the stack as deep
\* as it found it; and the stack is empty when the walk of the subprogram
\* is over.
C38_NameStackBalanced ==
  Walked /\ analysis.died = "" =>
    /\ analysis.nameStack = <<>>
    /\ \A t \in 1..Len(analysis.trace) :
         LET around == Enclosing(program, analysis.trace[t][1])
             stack == analysis.trace[t][2]
         IN /\ Len(stack) = Len(around)
            /\ \A d \in 1..Len(around) : EntryOf(program, around[d], stack[d])

\* a CYCLE or EXIT statement under two constructs found two entries, and a
\* later statement outside every construct found the stack empty
C38_Witness ==
  /\ Walked /\ analysis.died = ""
  /\ \E t, u \in 1..Len(analysis.trace) :
       /\ t < u
       /\ NodeAt(program, analysis.trace[t][1]).kind \in {"CycleStmt", "ExitStmt"}
       /\ Len(analysis.trace[t][2]) = 2
       /\ analysis.trace[u][2] = <<>>

\* the unit asked for is in the scope tree sc: a module in the global scope,
\* or a submodule whose chain of parents ends at the ancestor
InScopeTree(sc, name, ancestor) ==
  /\ name \in DOMAIN sc
  /\ IF ancestor = Global THEN sc[name].parent = Global
     ELSE sc[name].isSubmodule /\ AncestorOf(sc, name) = ancestor

\* C39: a Read of a module that is in the global scope, or of a submodule
\* that is under the given ancestor, returns that scope without opening,
\* verifying or parsing any file and without a message, and leaves the scope
\* tree as it is; and a Read that returns a scope leaves the unit in the
\* scope tree, so every later Read of the name returns the same scope.
C39_ReadCached ==
  [][/\ InScopeTree(scopes, rdLast'.name, rdLast'.ancestor)
          => /\ rdLast'.result = rdLast'.name
             /\ rdLast'.status = "ok"
             /\ rdLast'.trace = <<>>
             /\ msgs' = <<>>
             /\ scopes' = scopes
             /\ order' = order
             /\ ~crashed'
     /\ rdLast'.result # Null
          => /\ rdLast'.result = rdLast'.name
             /\ InScopeTree(scopes', rdLast'.name, rdLast'.ancestor)]_vars

\* a Read found files for m and for s under m, and the Read of s that came
\* after them returned the scope of s without touching a file
C39_Witness ==
  /\ NameS \in DOMAIN scopes
  /\ scopes[NameS].modFile
  /\ rdLast.name = NameS
  /\ rdLast.ancestor = NameM
  /\ rdLast.result = NameS
  /\ rdLast.trace = <<>>

\* the positions in searchDirectories of the directories whose candidate for
\* the requested name qualifies
QualifyingDirs(rd) ==
  {i \in 1..Len(searchDirectories) :
     Qualifies(fs, searchDirectories[i], rd.name, rd.ancestor)}

\* the candidate of the requested name in the i-th search directory
Candidate(rd, i) == ModFilePath(searchDirectories[i], rd.name, rd.ancestor)

\* C40: when a candidate of the requested name qualifies, Read opens no
\* candidate of a later directory and verifies and parses, of all candidates
\* of the name, the earliest one that qualifies only; when that file has a
\* wrong checksum or does not parse, Read returns no scope and the unit does
\* not get into the scope tree, whatever the later directories hold.
C40_NoFallback ==
  (Searched(rdLast) /\ QualifyingDirs(rdLast) # {}) =>
    LET first == CHOOSE i \in QualifyingDirs(rdLast) :
                   \A j \in QualifyingDirs(rdLast) : i <= j
    IN /\ \A k \in 1..Len(rdLast.trace), i \in 1..Len(searchDirectories) :
            rdLast.trace[k].path = Candidate(rdLast, i) =>
              /\ i <= first
              /\ rdLast.trace[k].ev # "open" => i = first
       /\ (~VerifyHeader(fs, Candidate(rdLast, first))
             \/ ~Parse(fs[Candidate(rdLast, first)].data).ok) =>
            /\ rdLast.result = Null
            /\ rdLast.name \notin DOMAIN scopes

\* "." holds a file for m with the magic and a wrong checksum, "d" a
\* well-formed one, and the Read of m returned no scope
C40_Witness ==
  /\ Searched(rdLast)
  /\ rdLast.name = NameM
  /\ PathM \in DOMAIN fs
  /\ PathDM \in DOMAIN fs
  /\ Qualifies(fs, Dot, NameM, Global)
  /\ ~VerifyHeader(fs, PathM)
  /\ VerifyHeader(fs, PathDM)
  /\ rdLast.result = Null
====
